---- MODULE Spec2Model ----
(***************************************************************************)
(* A model of the string-art renderer: the signed colour accumulator      *)
(* (imagery.rs), the line rasteriser (geometry.rs, imagery.rs), the       *)
(* best/worst candidate search (optimum.rs) and the greedy add/remove     *)
(* optimiser in its three generations (style.rs, style/color.rs,          *)
(* style/monochrome.rs).                                                  *)
(*                                                                         *)
(* Numbers.  f64 values are modelled by exact rationals.  The step sizes  *)
(* and alphas the model draws are chosen so that every f64 operation the  *)
(* code performs on them is exact or stays on the same side of every      *)
(* rounding boundary, hence the exact value is the value the code         *)
(* computes.  i64 channels keep a width: they are narrowed to I64Bits     *)
(* bits, with the code's saturating operations saturating at that width.  *)
(***************************************************************************)
EXTENDS Integers, Sequences, FiniteSets, TLC

(***************************************************************************)
(* Bounds of the model.                                                    *)
(***************************************************************************)
Width == 2
Height == 2
\* i64 narrowed to this many bits (TLC's integers are 32 bits wide)
I64Bits == 30
\* the longest list of segments the accumulator specification builds
MaxSegs == 1
\* the longest list of segments the optimiser may hold (memory)
SegCap == 24

U8_MAX == 255
I64_MAX == 2 ^ (I64Bits - 1) - 1
I64_MIN == -(2 ^ (I64Bits - 1))
\* usize::MAX, the default of max_strings, at the narrowed width
USIZE_MAX == 2 * I64_MAX + 1

VARIABLES
    variant,        \* which generation of the optimiser runs: "style", "color", "mono"
    target,         \* the decoded input image, Points -> Rgb
    background,     \* args.background_color
    pin_locations,  \* the pin list
    rgbs,           \* the palette handed to the optimiser (colour minus background)
    args,           \* max_strings, step_size, string_alpha
    ref_image,      \* the working accumulator
    line_segments,  \* the strings chosen so far, in order
    keep_adding, keep_removing, max_at_once,
    pc,             \* position in implementation: "outer", "add", "remove", "done"
    initial_score, final_score,
    found,          \* the last find_best / find_worst call: its arguments and its result
    iter_score,     \* the score when the current outer-loop iteration began
    max_batch,      \* the longest batch applied in the current outer-loop iteration
    seen,           \* the (ref_image, max_at_once) pairs the current add phase began a query in
    probe,          \* the last += / -= of the accumulator specification
    call,           \* the last call of the operations specification: what ran, on what, its outcome
    iteration       \* the outer-loop iterations the batch-size specification has begun

vars == <<variant, target, background, pin_locations, rgbs, args, ref_image, line_segments,
          keep_adding, keep_removing, max_at_once, pc, initial_score, final_score,
          found, iter_score, max_batch, seen, probe, call, iteration>>

(***************************************************************************)
(* Integer helpers.                                                        *)
(***************************************************************************)
Abs(n) == IF n < 0 THEN -n ELSE n
Min2(a, b) == IF a <= b THEN a ELSE b
Max2(a, b) == IF a >= b THEN a ELSE b
SetMax(S) == CHOOSE m \in S : \A n \in S : n <= m
SetMin(S) == CHOOSE m \in S : \A n \in S : m <= n

\* the function f itself, tabulated
Explicit(f) == f @@ <<>>

RECURSIVE SumOver(_, _)
\* the sum of f[x] over the finite set S
SumOver(S, f) ==
    IF S = {} THEN 0
    ELSE LET x == CHOOSE y \in S : TRUE IN f[x] + SumOver(S \ {x}, f)

\* f64::round of the rational num/den (den > 0): nearest, halves away from zero
f64_round(num, den) ==
    IF num >= 0 THEN (2 * num + den) \div (2 * den)
    ELSE -((2 * (-num) + den) \div (2 * den))

\* i64::saturating_add / saturating_sub
saturating_add(a, b) == Max2(I64_MIN, Min2(I64_MAX, a + b))
saturating_sub(a, b) == Max2(I64_MIN, Min2(I64_MAX, a - b))
\* unary minus on i64: -i64::MIN does not fit; a release build wraps it to i64::MIN
i64_neg(a) == IF a = I64_MIN THEN I64_MIN ELSE -a

(***************************************************************************)
(* Rgb: a triple <<r, g, b>> of i64 (imagery.rs).                          *)
(***************************************************************************)
BLACK == <<0, 0, 0>>
WHITE == <<255, 255, 255>>

Rgb_add(x, y) ==
    <<saturating_add(x[1], y[1]), saturating_add(x[2], y[2]), saturating_add(x[3], y[3])>>
Rgb_sub(x, y) ==
    <<saturating_sub(x[1], y[1]), saturating_sub(x[2], y[2]), saturating_sub(x[3], y[3])>>
Rgb_neg(x) == <<i64_neg(x[1]), i64_neg(x[2]), i64_neg(x[3])>>

pixel_score(c) == c[1] * c[1] + c[2] * c[2] + c[3] * c[3]

(***************************************************************************)
(* Geometry.  A Point is <<x, y>>; a step size or an alpha is a rational   *)
(* [n |-> numerator, d |-> denominator].                                   *)
(***************************************************************************)
Points == (0 .. Width - 1) \X (0 .. Height - 1)

\* |B - A|^2
Dist2(a, b) == (b[1] - a[1]) * (b[1] - a[1]) + (b[2] - a[2]) * (b[2] - a[2])

\* LineIter::next yields while distance >= 0, distance starting at |B - A| and
\* losing step_size per sample: the last sample index is the greatest k with
\* k * step_size <= |B - A|
LastSample(a, b, s) ==
    LET q == Dist2(a, b)
        top == ((Abs(b[1] - a[1]) + Abs(b[2] - a[2])) * s.d) \div s.n
    IN SetMax({k \in 0 .. top : k * k * s.n * s.n <= q * s.d * s.d})

\* Point::from(Vector): one coordinate of the k-th sample, a0 + k * s * d / |B - A|,
\* rounded to the nearest integer (round is floor(v + 1/2) on the non-negative v here)
SampleCoord(a0, d, k, q, s) ==
    IF k = 0 THEN a0
    ELSE LET r == 2 * k * s.n * d
             \* n <= a0 + 1/2 + k*s*d/sqrt(q), decided on squares
             Reaches(n) ==
                 LET l == (2 * n - 2 * a0 - 1) * s.d
                 IN IF l <= 0
                    THEN (r >= 0 \/ l * l * q >= r * r)
                    ELSE (r >= 0 /\ l * l * q <= r * r)
         IN SetMax({n \in 0 .. a0 + Abs(d) + 1 : Reaches(n)})

\* the Point of the k-th sample of the line (a, b)
SamplePoint(a, b, k, s) ==
    LET q == Dist2(a, b)
    IN <<SampleCoord(a[1], b[1] - a[1], k, q, s), SampleCoord(a[2], b[2] - a[2], k, q, s)>>

\* how many samples of the line (a, b) fall on each pixel (the fold of From for PixLine)
SampleCounts(a, b, s) ==
    LET last == LastSample(a, b, s)
        pts == {SamplePoint(a, b, k, s) : k \in 0 .. last}
    IN Explicit([p \in pts |-> Cardinality({k \in 0 .. last : SamplePoint(a, b, k, s) = p})])

(***************************************************************************)
(* PixLine: a function from the pixels a string touches to its Rgb         *)
(* contribution there.                                                     *)
(***************************************************************************)
\* the step sizes the model draws, and the sample counts of every line for each of
\* them, computed once
StepSizes == {[n |-> 1, d |-> 1], [n |-> 1, d |-> 2]}
LineSamples == Explicit([a \in Points, b \in Points, s \in StepSizes |-> SampleCounts(a, b, s)])

\* From<(T, Rgb, f64, f64)> for PixLine
PixLine(a, b, rgb, s, al) ==
    LET cnt == LineSamples[a, b, s]
        chan(n, c) == f64_round(n * c * s.n * al.n, s.d * al.d)
    IN Explicit([p \in DOMAIN cnt |->
                    <<chan(cnt[p], rgb[1]), chan(cnt[p], rgb[2]), chan(cnt[p], rgb[3])>>])

\* PixLine::negated
PixLine_negated(l) == [p \in DOMAIN l |-> Rgb_neg(l[p])]

(***************************************************************************)
(* RefImage: a function from Points to Rgb.                                *)
(***************************************************************************)
RefImage_new == [p \in Points |-> BLACK]
negated(img) == [p \in DOMAIN img |-> Rgb_neg(img[p])]
add_rgb(img, c) == [p \in DOMAIN img |-> Rgb_add(img[p], c)]

score(img) == SumOver(DOMAIN img, [p \in DOMAIN img |-> pixel_score(img[p])])

score_change_on_add(img, l) ==
    SumOver(DOMAIN l,
            [p \in DOMAIN l |-> pixel_score(Rgb_add(img[p], l[p])) - pixel_score(img[p])])

score_change_on_sub(img, l) == score_change_on_add(img, PixLine_negated(l))

\* += with every channel clamped to a displayable byte
add_assign_clamped(img, l) ==
    [p \in DOMAIN img |->
        IF p \in DOMAIN l
        THEN LET c == Rgb_add(img[p], l[p])
             IN <<Max2(0, Min2(U8_MAX, c[1])), Max2(0, Min2(U8_MAX, c[2])),
                  Max2(0, Min2(U8_MAX, c[3]))>>
        ELSE img[p]]

\* AddAssign for RefImage
add_assign(img, l) ==
    [p \in DOMAIN img |-> IF p \in DOMAIN l THEN Rgb_add(img[p], l[p]) ELSE img[p]]

\* -= that adds the line instead of taking it off
sub_assign_added(img, l) ==
    [p \in DOMAIN img |-> IF p \in DOMAIN l THEN Rgb_add(img[p], l[p]) ELSE img[p]]

\* SubAssign for RefImage
sub_assign(img, l) ==
    [p \in DOMAIN img |-> IF p \in DOMAIN l THEN Rgb_sub(img[p], l[p]) ELSE img[p]]


\* From<(&Vec<T>, u32, u32)> for RefImage: a fresh image with every line added in order;
\* lines is a sequence of <<a, b, rgb>>
RECURSIVE From_lines(_, _, _)
From_lines(lines, s, al) ==
    IF lines = <<>> THEN RefImage_new
    ELSE LET n == Len(lines)
             x == lines[n]
         IN add_assign(From_lines(SubSeq(lines, 1, n - 1), s, al), PixLine(x[1], x[2], x[3], s, al))

\* From<&Data> for RefImage with the background left out of the strings' colours
From_Data_raw(segs, bg, s, al) ==
    add_rgb(From_lines(segs, s, al), bg)

\* From<&Data> for RefImage: every string drawn with its colour minus the
\* background, then the background added to every pixel
From_Data(segs, bg, s, al) ==
    add_rgb(From_lines([i \in 1 .. Len(segs) |->
                           <<segs[i][1], segs[i][2], Rgb_sub(segs[i][3], bg)>>], s, al), bg)

\* From<&DynamicImage> for RefImage: the decoded pixels, channel by channel
From_image(img) == [p \in Points |-> img[p]]

\* the working image the driver hands to the optimiser: (-target) + background
WorkingImage(img, bg) == add_rgb(negated(From_image(img)), bg)

\* a removal that takes the first element whatever the index
RemoveAt_first(seq, i) == Tail(seq)

\* Vec::remove(i) on a 1-based sequence
RemoveAt(seq, i) == SubSeq(seq, 1, i - 1) \o SubSeq(seq, i + 1, Len(seq))

(***************************************************************************)
(* The monochrome generation: a PixLine is a function from pixels to u8, a *)
(* RefImage a function from Points to i64 (string_art/imagery.rs).         *)
(***************************************************************************)
\* From<(T, f64, f64)> for PixLine: min(1.0, hits * step * alpha) * 255, truncated to u8
PixLineMon(a, b, s, al) ==
    LET cnt == LineSamples[a, b, s]
    IN Explicit([p \in DOMAIN cnt |->
                    IF cnt[p] * s.n * al.n >= s.d * al.d THEN U8_MAX
                    ELSE (cnt[p] * s.n * al.n * U8_MAX) \div (s.d * al.d)])

\* RefImage::score of the monochrome image
score_mon(img) == SumOver(DOMAIN img, [p \in DOMAIN img |-> img[p] * img[p]])

\* the luma image a monochrome run starts from (grey targets: luma is any channel)
From_luma(img) == [p \in Points |-> img[p][1]]

\* AddAssign / SubAssign for the monochrome RefImage
add_line_mon(img, l) == [p \in DOMAIN img |-> IF p \in DOMAIN l THEN img[p] + l[p] ELSE img[p]]
subtract_line_mon(img, l) ==
    [p \in DOMAIN img |-> IF p \in DOMAIN l THEN img[p] - l[p] ELSE img[p]]

\* the change in the monochrome score when a line is added to the work (taken off the image)
line_score_mon(l, img) ==
    SumOver(DOMAIN l, [p \in DOMAIN l |-> (img[p] - l[p]) * (img[p] - l[p]) - img[p] * img[p]])

\* the change in the monochrome score when a line is removed from the work
line_removal_score_mon(l, img) ==
    SumOver(DOMAIN l, [p \in DOMAIN l |-> (img[p] + l[p]) * (img[p] + l[p]) - img[p] * img[p]])

\* the filter left out: every pair passes
pair_filter_none(a, b) == TRUE

(***************************************************************************)
(* The candidate search (optimum.rs).  sort_unstable_by_key may leave      *)
(* equal keys in any order, so a search has a set of possible results.     *)
(***************************************************************************)
\* the filter on pin pairs: both coordinates differ
pair_filter(a, b) == a[1] # b[1] /\ a[2] # b[2]

\* the pin pairs a search scores, as indices into the pin list: pins.enumerate()
\* against pins.skip(i), passed through the filter
pin_pairs(pins) ==
    {ij \in (1 .. Len(pins)) \X (1 .. Len(pins)) :
        ij[2] >= ij[1] /\ pair_filter(pins[ij[1]], pins[ij[2]])}

\* the filter on scores that keeps everything that does not worsen the image
improving_or_equal(s) == s <= 0

\* the filter on scores: strictly negative
improving(s) == s < 0

\* the key a descending sort would put first
first_key_descending(C, sc) == SetMax({sc[c] : c \in C})

\* the key sort_unstable_by_key puts first
first_key(C, sc) == SetMin({sc[c] : c \in C})

\* sort by key and take(max): every order the sort may leave equal keys in
RECURSIVE sorted_take(_, _, _)
sorted_take(C, sc, max) ==
    IF max = 0 \/ C = {} THEN {<<>>}
    ELSE LET m == first_key(C, sc)
         IN UNION {{<<c>> \o t : t \in sorted_take(C \ {c}, sc, max - 1)} :
                      c \in {x \in C : sc[x] = m}}

\* the subsets of S with k elements
RECURSIVE k_subsets(_, _)
k_subsets(S, k) ==
    IF k = 0 THEN {{}}
    ELSE IF Cardinality(S) < k THEN {}
    ELSE IF Cardinality(S) = k THEN {S}
    ELSE LET x == CHOOSE y \in S : TRUE
         IN {T \cup {x} : T \in k_subsets(S \ {x}, k - 1)} \cup k_subsets(S \ {x}, k)

\* sort by key and take(max) over indices, for a caller that sorts the result by
\* index straight away: equal keys are left in index order, and which of the equal
\* keys at the cut are taken is open
sorted_take_indices(C, sc, max) ==
    IF Cardinality(C) <= max
    THEN {[n \in 1 .. Cardinality(C) |->
             CHOOSE i \in C :
                 Cardinality({j \in C : sc[j] < sc[i] \/ (sc[j] = sc[i] /\ j < i)}) = n - 1]}
    ELSE IF max = 0 THEN {<<>>}
    ELSE LET m == CHOOSE v \in {sc[i] : i \in C} :
                      /\ Cardinality({i \in C : sc[i] < v}) < max
                      /\ Cardinality({i \in C : sc[i] <= v}) >= max
             sure == {i \in C : sc[i] < m}
         IN {[n \in 1 .. max |->
                CHOOSE i \in T :
                    Cardinality({j \in T : sc[j] < sc[i] \/ (sc[j] = sc[i] /\ j < i)}) = n - 1] :
              T \in {sure \cup X : X \in k_subsets({i \in C : sc[i] = m}, max - Cardinality(sure))}}

\* the change in score when the string (a, b, rgb) is added
line_score(a, b, rgb, s, al, img) == score_change_on_add(img, PixLine(a, b, rgb, s, al))

\* the change in score when the string (a, b, rgb) is removed
line_removal_score(a, b, rgb, s, al, img) == score_change_on_sub(img, PixLine(a, b, rgb, s, al))

\* the search that takes any max of the improving strings, whatever their keys
find_best_points_any(pins, img, s, al, colours, max) ==
    LET C == {<<ij[1], ij[2], c>> : ij \in pin_pairs(pins), c \in 1 .. Len(colours)}
        sc == Explicit([x \in C |-> line_score(pins[x[1]], pins[x[2]], colours[x[3]], s, al, img)])
        keep == {x \in C : improving(sc[x])}
    IN {[n \in 1 .. Len(t) |->
            [seg |-> <<pins[t[n][1]], pins[t[n][2]], colours[t[n][3]]>>, s |-> sc[t[n]]]] :
          t \in UNION {sorted_take(T, sc, max) :
                         T \in k_subsets(keep, Min2(max, Cardinality(keep)))}}

\* find_best_points_col: the possible results, each a sequence of [seg, s]
find_best_points(pins, img, s, al, colours, max) ==
    LET C == {<<ij[1], ij[2], c>> : ij \in pin_pairs(pins), c \in 1 .. Len(colours)}
        sc == Explicit([x \in C |-> line_score(pins[x[1]], pins[x[2]], colours[x[3]], s, al, img)])
        keep == {x \in C : improving(sc[x])}
    IN {[n \in 1 .. Len(t) |->
            [seg |-> <<pins[t[n][1]], pins[t[n][2]], colours[t[n][3]]>>, s |-> sc[t[n]]]] :
          t \in sorted_take(keep, sc, max)}

\* the search for the worst strings without the filter on scores
find_worst_points_unfiltered(points, img, s, al, max) ==
    LET C == 1 .. Len(points)
        sc == Explicit([i \in C |->
                  line_removal_score(points[i][1], points[i][2], points[i][3], s, al, img)])
    IN {[n \in 1 .. Len(t) |-> [i |-> t[n], s |-> sc[t[n]]]] : t \in sorted_take_indices(C, sc, max)}

\* find_worst_points_col: the possible results, each a sequence of [i, s]; i counts from 1
find_worst_points(points, img, s, al, max) ==
    LET C == 1 .. Len(points)
        sc == Explicit([i \in C |->
                  line_removal_score(points[i][1], points[i][2], points[i][3], s, al, img)])
        keep == {i \in C : improving(sc[i])}
    IN {[n \in 1 .. Len(t) |-> [i |-> t[n], s |-> sc[t[n]]]] :
          t \in sorted_take_indices(keep, sc, max)}

\* find_best_points_mon
find_best_points_mon(pins, img, s, al, max) ==
    LET C == pin_pairs(pins)
        sc == Explicit([x \in C |-> line_score_mon(PixLineMon(pins[x[1]], pins[x[2]], s, al), img)])
        keep == {x \in C : improving(sc[x])}
    IN {[n \in 1 .. Len(t) |-> [seg |-> <<pins[t[n][1]], pins[t[n][2]]>>, s |-> sc[t[n]]]] :
          t \in sorted_take(keep, sc, max)}

\* find_worst_points_mon
find_worst_points_mon(points, img, s, al, max) ==
    LET C == 1 .. Len(points)
        sc == Explicit([i \in C |->
                  line_removal_score_mon(PixLineMon(points[i][1], points[i][2], s, al), img)])
        keep == {i \in C : improving(sc[i])}
    IN {[n \in 1 .. Len(t) |-> [i |-> t[n], s |-> sc[t[n]]]] :
          t \in sorted_take_indices(keep, sc, max)}

(***************************************************************************)
(* The inputs the model draws.                                             *)
(***************************************************************************)
GREY == <<125, 125, 125>>
RED == <<255, 0, 0>>
LIGHT == <<245, 245, 245>>
PALE == <<235, 235, 235>>
DARK == <<5, 5, 5>>
DIM == <<15, 15, 15>>

\* a rectangle anchored at the origin in one colour, the rest in another
Rect(cx, cy, inside, outside) ==
    [p \in Points |-> IF p[1] < cx /\ p[2] < cy THEN inside ELSE outside]

Targets ==
    {Rect(cx, cy, c[1], c[2]) :
        cx \in 0 .. Width, cy \in 0 .. Height, c \in {<<WHITE, BLACK>>, <<BLACK, WHITE>>}}

\* the four corners of the image; a pin list is the first two, three or four of them
Corners == <<<<0, 0>>, <<Width - 1, Height - 1>>, <<0, Height - 1>>, <<Width - 1, 0>>>>
PinLists(v) ==
    IF v = "mono" THEN {SubSeq(Corners, 1, 2), Corners}
    ELSE {SubSeq(Corners, 1, 2), SubSeq(Corners, 1, 3)}

\* a background with the raw foreground colours
Palettes ==
    { [background |-> BLACK, colours |-> <<WHITE, RED, BLACK>>],
      [background |-> GREY, colours |-> <<LIGHT, PALE, DARK, DIM>>],
      [background |-> GREY, colours |-> <<LIGHT, PALE>>] }

\* (step_size, string_alpha) pairs
Rat(n, d) == [n |-> n, d |-> d]
StepAlphas(v) ==
    IF v = "mono"
    THEN {<<Rat(1, 1), Rat(1, 5)>>, <<Rat(1, 2), Rat(1, 2)>>, <<Rat(1, 1), Rat(1, 20)>>}
    ELSE {<<Rat(1, 1), Rat(1, 5)>>, <<Rat(1, 2), Rat(1, 2)>>, <<Rat(1, 1), Rat(1, 1)>>}

\* the colours handed to the optimiser: foreground minus background
Shifted(pal) == [i \in 1 .. Len(pal.colours) |-> Rgb_sub(pal.colours[i], pal.background)]

NoProbe == [op |-> "none", image |-> <<>>, line |-> <<>>, predicted |-> 0]
NoFound == [kind |-> "none", k |-> 0, image |-> <<>>, segs |-> <<>>, result |-> <<>>]
NoCall == [fn |-> "none", in |-> <<>>, out |-> <<>>, ran |-> FALSE]

(***************************************************************************)
(* The accumulator on its own: strings are added to and taken off the      *)
(* working image in any order, improving or not.  line_segments holds the  *)
(* strings with their raw colours, as the emitted record does.             *)
(***************************************************************************)
ImgPalettes ==
    { [background |-> BLACK, colours |-> <<WHITE, RED>>],
      [background |-> GREY, colours |-> <<LIGHT, DARK>>] }
ImgStepAlphas == {<<Rat(1, 1), Rat(1, 5)>>, <<Rat(1, 2), Rat(1, 2)>>}

InitImg ==
    /\ variant = "image"
    /\ target \in Targets
    /\ \E pal \in ImgPalettes : background = pal.background /\ rgbs = Shifted(pal)
    /\ \E sa \in ImgStepAlphas :
           args = [max_strings |-> MaxSegs, step_size |-> sa[1], string_alpha |-> sa[2]]
    /\ pin_locations = Corners
    /\ ref_image = WorkingImage(target, background)
    /\ line_segments = <<>>
    /\ keep_adding = FALSE /\ keep_removing = FALSE /\ max_at_once = 0
    /\ pc = "image"
    /\ initial_score = score(ref_image) /\ final_score = 0
    /\ found = NoFound /\ iter_score = 0 /\ max_batch = 0 /\ seen = {}
    /\ probe = NoProbe
    /\ call = NoCall
    /\ iteration = 0

ImgUnchanged ==
    UNCHANGED <<variant, target, background, pin_locations, rgbs, args, keep_adding,
                keep_removing, max_at_once, pc, initial_score, final_score, found,
                iter_score, max_batch, seen, call, iteration>>

\* R += L for the string from pin i to pin j in colour c
AddLine(i, j, c) ==
    /\ pc = "image"
    /\ Len(line_segments) < args.max_strings
    /\ LET l == PixLine(pin_locations[i], pin_locations[j], rgbs[c],
                        args.step_size, args.string_alpha)
       IN /\ probe' = [op |-> "add", image |-> ref_image, line |-> l,
                       predicted |-> score_change_on_add(ref_image, l)]
          /\ ref_image' = add_assign(ref_image, l)
    /\ line_segments' = Append(line_segments,
                               <<pin_locations[i], pin_locations[j], Rgb_add(rgbs[c], background)>>)
    /\ ImgUnchanged

\* R -= L for the n-th string of the list
SubLine(n) ==
    /\ pc = "image"
    /\ n \in 1 .. Len(line_segments)
    /\ LET x == line_segments[n]
           l == PixLine(x[1], x[2], Rgb_sub(x[3], background), args.step_size, args.string_alpha)
       IN /\ probe' = [op |-> "sub", image |-> ref_image, line |-> l,
                       predicted |-> score_change_on_sub(ref_image, l)]
          /\ ref_image' = sub_assign(ref_image, l)
    /\ line_segments' = RemoveAt(line_segments, n)
    /\ ImgUnchanged

NextImg ==
    \/ \E i \in 1 .. Len(Corners), c \in 1 .. Len(rgbs) :
           \E j \in i .. Len(Corners) : AddLine(i, j, c)
    \/ \E n \in 1 .. MaxSegs : SubLine(n)

SpecImg == InitImg /\ [][NextImg]_vars

(***************************************************************************)
(* The optimiser.  One run of implementation: the state after its locals   *)
(* are initialised, then one action per pass through the outer loop head,  *)
(* per pass through the body of the add loop and of the remove loop, per   *)
(* exit of either loop, and one for the return.  style.rs and color.rs     *)
(* work on the Rgb accumulator, monochrome.rs on the luma accumulator.     *)
(***************************************************************************)
Variants == {"style", "color", "mono"}
MaxStrings == {1, 10, 21, USIZE_MAX}

Score(v, img) == IF v = "mono" THEN score_mon(img) ELSE score(img)

\* the segments of a find_best result, in order
segs_of(points) == [n \in 1 .. Len(points) |-> points[n].seg]

\* points.into_iter().for_each(add_line)
RECURSIVE add_lines(_, _, _, _)
add_lines(img, points, s, al) ==
    IF points = <<>> THEN img
    ELSE LET x == Head(points).seg
         IN add_lines(add_assign(img, PixLine(x[1], x[2], x[3], s, al)), Tail(points), s, al)

\* the monochrome add: every chosen line is subtracted from the image
RECURSIVE subtract_lines_mon(_, _, _, _)
subtract_lines_mon(img, points, s, al) ==
    IF points = <<>> THEN img
    ELSE LET x == Head(points).seg
         IN subtract_lines_mon(subtract_line_mon(img, PixLineMon(x[1], x[2], s, al)),
                               Tail(points), s, al)

\* worst_points.sort_unstable_by_key(|(i, _)| *i); worst_points.reverse(): the
\* indices from the biggest to the smallest
by_index_descending(worst) ==
    LET I == {worst[n].i : n \in 1 .. Len(worst)}
    IN [n \in 1 .. Cardinality(I) |-> CHOOSE i \in I : Cardinality({j \in I : j > i}) = n - 1]

\* worst_points.into_iter().for_each: line_segments.remove(i), then subtract_line
RECURSIVE remove_lines(_, _, _, _, _)
remove_lines(img, segs, order, s, al) ==
    IF order = <<>> THEN [image |-> img, segs |-> segs]
    ELSE LET x == segs[Head(order)]
         IN remove_lines(sub_assign(img, PixLine(x[1], x[2], x[3], s, al)),
                         RemoveAt(segs, Head(order)), Tail(order), s, al)

\* the monochrome remove: every removed line is added back into the image
RECURSIVE remove_lines_mon(_, _, _, _, _)
remove_lines_mon(img, segs, order, s, al) ==
    IF order = <<>> THEN [image |-> img, segs |-> segs]
    ELSE LET x == segs[Head(order)]
         IN remove_lines_mon(add_line_mon(img, PixLineMon(x[1], x[2], s, al)),
                             RemoveAt(segs, Head(order)), Tail(order), s, al)

\* usize::min(args.max_strings / 10, 100)
initial_max_at_once(ms) == Min2(ms \div 10, 100)
\* usize::max(1, usize::min(args.max_strings / 10, 100))
initial_max_at_once_mon(ms) == Max2(1, Min2(ms \div 10, 100))
\* (max_at_once as f64 * 1.1) as usize
grown(mao) == (mao * 11) \div 10
\* usize::max(1, (max_at_once as f64 * 0.9) as usize)
shrunk(mao) == Max2(1, (mao * 9) \div 10)
\* usize::max(1, max_at_once.saturating_sub(usize::max(1, max_at_once / 10)))
decayed(mao) == Max2(1, Max2(0, mao - Max2(1, mao \div 10)))

Init ==
    /\ variant \in Variants
    /\ target \in Targets
    /\ pin_locations \in PinLists(variant)
    /\ \E pal \in Palettes :
           /\ variant = "mono" => pal.background = BLACK
           /\ background = pal.background
           /\ rgbs = Shifted(pal)
    /\ \E sa \in StepAlphas(variant), ms \in MaxStrings :
           args = [max_strings |-> ms, step_size |-> sa[1], string_alpha |-> sa[2]]
    /\ ref_image = IF variant = "mono" THEN From_luma(target)
                   ELSE WorkingImage(target, background)
    /\ line_segments = <<>>
    /\ keep_adding = TRUE
    /\ keep_removing = TRUE
    /\ max_at_once = IF variant = "mono" THEN initial_max_at_once_mon(args.max_strings)
                     ELSE initial_max_at_once(args.max_strings)
    /\ pc = "outer"
    /\ initial_score = Score(variant, ref_image)
    /\ final_score = -1
    /\ found = NoFound
    /\ iter_score = -1
    /\ max_batch = 0
    /\ seen = {}
    /\ probe = NoProbe
    /\ call = NoCall
    /\ iteration = 0

Inputs == <<variant, target, background, pin_locations, rgbs, args, initial_score, probe, call,
            iteration>>

\* the bookkeeping of one pass through the body of an add or a remove loop
Noted(kind, k, result) ==
    /\ found' = [kind |-> kind, k |-> k, image |-> ref_image, segs |-> line_segments,
                 result |-> result]
    /\ max_batch' = Max2(max_batch, Len(result))
    /\ seen' = IF kind = "best" THEN seen \cup {<<ref_image, max_at_once>>} ELSE seen

\* the head of the outer loop, taken while a flag is set
LoopHead(mao) ==
    /\ pc = "outer"
    /\ keep_adding \/ keep_removing
    /\ max_at_once' = mao
    /\ pc' = "add"
    /\ iter_score' = Score(variant, ref_image)
    /\ max_batch' = 0
    /\ seen' = {}
    /\ UNCHANGED <<ref_image, line_segments, keep_adding, keep_removing, final_score, found>>
    /\ UNCHANGED Inputs

\* leaving the add loop for the remove loop
AddDone(mao) ==
    /\ pc = "add"
    /\ ~keep_adding
    /\ max_at_once' = mao
    /\ pc' = "remove"
    /\ seen' = {}
    /\ UNCHANGED <<ref_image, line_segments, keep_adding, keep_removing, final_score, found,
                   iter_score, max_batch>>
    /\ UNCHANGED Inputs

\* leaving the remove loop: the end of one iteration of the outer loop
RemoveDone(mao) ==
    /\ pc = "remove"
    /\ ~keep_removing
    /\ max_at_once' = mao
    /\ pc' = "outer"
    /\ UNCHANGED <<ref_image, line_segments, keep_adding, keep_removing, final_score, found,
                   iter_score, max_batch, seen>>
    /\ UNCHANGED Inputs

\* the outer loop's condition fails: final_score is taken and the run returns
Return ==
    /\ pc = "outer"
    /\ ~keep_adding /\ ~keep_removing
    /\ final_score' = Score(variant, ref_image)
    /\ pc' = "done"
    /\ UNCHANGED <<ref_image, line_segments, keep_adding, keep_removing, max_at_once, found,
                   iter_score, max_batch, seen>>
    /\ UNCHANGED Inputs

(***************************************************************************)
(* style.rs                                                                *)
(***************************************************************************)
Style_Loop == variant = "style" /\ LoopHead(Min2(max_at_once, 100))

\* one pass through the body of `while keep_adding`
Style_Add ==
    /\ variant = "style" /\ pc = "add" /\ keep_adding
    /\ LET k == Min2(args.max_strings - Len(line_segments), max_at_once)
       IN \E points \in find_best_points(pin_locations, ref_image, args.step_size,
                                         args.string_alpha, rgbs, k) :
            /\ Len(line_segments) + Len(points) <= SegCap
            /\ Noted("best", k, points)
            /\ max_at_once' = IF Len(points) = max_at_once THEN grown(max_at_once)
                              ELSE max_at_once
            /\ ref_image' = add_lines(ref_image, points, args.step_size, args.string_alpha)
            /\ line_segments' = line_segments \o segs_of(points)
            /\ keep_adding' = (points # <<>> /\ Len(line_segments') < args.max_strings)
            /\ keep_removing' = (keep_removing \/ points # <<>>)
    /\ UNCHANGED <<pc, final_score, iter_score>>
    /\ UNCHANGED Inputs

Style_AddDone == variant = "style" /\ AddDone(shrunk(max_at_once))

\* one pass through the body of `while keep_removing`
Style_Remove ==
    /\ variant = "style" /\ pc = "remove" /\ keep_removing
    /\ LET k == Min2(Len(line_segments), Max2(1, max_at_once \div 10))
       IN \E worst \in find_worst_points(line_segments, ref_image, args.step_size,
                                         args.string_alpha, k) :
            LET r == remove_lines(ref_image, line_segments, by_index_descending(worst),
                                  args.step_size, args.string_alpha)
            IN /\ Noted("worst", k, worst)
               /\ ref_image' = r.image
               /\ line_segments' = r.segs
               /\ keep_removing' = (worst # <<>> /\ r.segs # <<>>)
               /\ keep_adding' = (keep_adding \/ worst # <<>>)
    /\ UNCHANGED <<pc, max_at_once, final_score, iter_score>>
    /\ UNCHANGED Inputs

Style_RemoveDone == variant = "style" /\ RemoveDone(max_at_once)

Style_Return == variant = "style" /\ Return

(***************************************************************************)
(* style/color.rs                                                          *)
(***************************************************************************)
Color_Loop == variant = "color" /\ LoopHead(max_at_once)

Color_Add ==
    /\ variant = "color" /\ pc = "add" /\ keep_adding
    /\ LET k == Min2(args.max_strings - Len(line_segments), max_at_once)
       IN \E points \in find_best_points(pin_locations, ref_image, args.step_size,
                                         args.string_alpha, rgbs, k) :
            /\ Len(line_segments) + Len(points) <= SegCap
            /\ Noted("best", k, points)
            /\ ref_image' = add_lines(ref_image, points, args.step_size, args.string_alpha)
            /\ line_segments' = line_segments \o segs_of(points)
            /\ keep_adding' = (points # <<>> /\ Len(line_segments') < args.max_strings)
            /\ keep_removing' = (keep_removing \/ points # <<>>)
    /\ UNCHANGED <<pc, max_at_once, final_score, iter_score>>
    /\ UNCHANGED Inputs

Color_AddDone == variant = "color" /\ AddDone(max_at_once)

Color_Remove ==
    /\ variant = "color" /\ pc = "remove" /\ keep_removing
    /\ LET k == Min2(Len(line_segments), max_at_once)
       IN \E worst \in find_worst_points(line_segments, ref_image, args.step_size,
                                         args.string_alpha, k) :
            LET r == remove_lines(ref_image, line_segments, by_index_descending(worst),
                                  args.step_size, args.string_alpha)
            IN /\ Noted("worst", k, worst)
               /\ ref_image' = r.image
               /\ line_segments' = r.segs
               /\ keep_removing' = (worst # <<>> /\ r.segs # <<>>)
               /\ keep_adding' = (keep_adding \/ worst # <<>>)
    /\ UNCHANGED <<pc, max_at_once, final_score, iter_score>>
    /\ UNCHANGED Inputs

Color_RemoveDone == variant = "color" /\ RemoveDone(decayed(max_at_once))

Color_Return == variant = "color" /\ Return

(***************************************************************************)
(* style/monochrome.rs                                                     *)
(***************************************************************************)
Mono_Loop == variant = "mono" /\ LoopHead(max_at_once)

Mono_Add ==
    /\ variant = "mono" /\ pc = "add" /\ keep_adding
    /\ LET k == max_at_once
       IN \E points \in find_best_points_mon(pin_locations, ref_image, args.step_size,
                                             args.string_alpha, k) :
            /\ Len(line_segments) + Len(points) <= SegCap
            /\ Noted("best", k, points)
            /\ ref_image' = subtract_lines_mon(ref_image, points, args.step_size,
                                               args.string_alpha)
            /\ line_segments' = line_segments \o segs_of(points)
            /\ keep_adding' = (points # <<>> /\ Len(line_segments') < args.max_strings)
            /\ keep_removing' = (keep_removing \/ points # <<>>)
    /\ UNCHANGED <<pc, max_at_once, final_score, iter_score>>
    /\ UNCHANGED Inputs

Mono_AddDone == variant = "mono" /\ AddDone(max_at_once)

Mono_Remove ==
    /\ variant = "mono" /\ pc = "remove" /\ keep_removing
    /\ LET k == max_at_once
       IN \E worst \in find_worst_points_mon(line_segments, ref_image, args.step_size,
                                             args.string_alpha, k) :
            LET r == remove_lines_mon(ref_image, line_segments, by_index_descending(worst),
                                      args.step_size, args.string_alpha)
            IN /\ Noted("worst", k, worst)
               /\ ref_image' = r.image
               /\ line_segments' = r.segs
               /\ keep_removing' = (worst # <<>> /\ r.segs # <<>>)
               /\ keep_adding' = (keep_adding \/ worst # <<>>)
    /\ UNCHANGED <<pc, max_at_once, final_score, iter_score>>
    /\ UNCHANGED Inputs

Mono_RemoveDone == variant = "mono" /\ RemoveDone(decayed(max_at_once))

Mono_Return == variant = "mono" /\ Return

Next ==
    \/ Style_Loop \/ Style_Add \/ Style_AddDone \/ Style_Remove \/ Style_RemoveDone
    \/ Style_Return
    \/ Color_Loop \/ Color_Add \/ Color_AddDone \/ Color_Remove \/ Color_RemoveDone
    \/ Color_Return
    \/ Mono_Loop \/ Mono_Add \/ Mono_AddDone \/ Mono_Remove \/ Mono_RemoveDone
    \/ Mono_Return

Spec == Init /\ [][Next]_vars

(***************************************************************************)
(* Properties of the optimiser.                                            *)
(***************************************************************************)
\* the image after one string is added to the work, and after one is removed
WithString(v, img, x, s, al) ==
    IF v = "mono" THEN subtract_line_mon(img, PixLineMon(x[1], x[2], s, al))
    ELSE add_assign(img, PixLine(x[1], x[2], x[3], s, al))
WithoutString(v, img, x, s, al) ==
    IF v = "mono" THEN add_line_mon(img, PixLineMon(x[1], x[2], s, al))
    ELSE sub_assign(img, PixLine(x[1], x[2], x[3], s, al))

\* what adding, or removing, the string x does to the score of img in the current run
AddChange(img, x) ==
    Score(variant, WithString(variant, img, x, args.step_size, args.string_alpha))
        - Score(variant, img)
RemoveChange(img, x) ==
    Score(variant, WithoutString(variant, img, x, args.step_size, args.string_alpha))
        - Score(variant, img)

\* the strings between two pins at different places, one per unordered pair of
\* positions in the pin list and per colour
AllStrings ==
    LET n == Len(pin_locations)
        pairs == {ij \in (1 .. n) \X (1 .. n) :
                     ij[1] < ij[2] /\ pin_locations[ij[1]] # pin_locations[ij[2]]}
    IN IF variant = "mono"
       THEN {<<pin_locations[ij[1]], pin_locations[ij[2]]>> : ij \in pairs}
       ELSE {<<pin_locations[ij[1]], pin_locations[ij[2]], rgbs[c]>> :
                ij \in pairs, c \in 1 .. Len(rgbs)}

\* the strings a search scores
ScoredStrings ==
    IF variant = "mono"
    THEN {<<pin_locations[ij[1]], pin_locations[ij[2]]>> : ij \in pin_pairs(pin_locations)}
    ELSE {<<pin_locations[ij[1]], pin_locations[ij[2]], rgbs[c]>> :
             ij \in pin_pairs(pin_locations), c \in 1 .. Len(rgbs)}

\* an iteration of the outer loop has just ended
IterationEnded == pc = "outer" /\ iter_score >= 0

\* C3: after each iteration of the outer loop, whatever the sizes of its
\* batches, the score is strictly lower than when the iteration began, or both
\* keep_adding and keep_removing are false
C3_MonotoneDecrease ==
    IterationEnded =>
        \/ Score(variant, ref_image) < iter_score
        \/ (~keep_adding /\ ~keep_removing)

\* C3, amended: after each iteration of the outer loop in which no search
\* returned more than one entry, the score is strictly lower than when the
\* iteration began, or both keep_adding and keep_removing are false
C3_MonotoneDecreaseSingle ==
    (IterationEnded /\ max_batch <= 1) =>
        \/ Score(variant, ref_image) < iter_score
        \/ (~keep_adding /\ ~keep_removing)

\* an iteration of single-entry batches ended with a lower score and the loop goes on
C3_Witness ==
    /\ IterationEnded
    /\ max_batch = 1
    /\ Score(variant, ref_image) < iter_score
    /\ keep_adding \/ keep_removing

\* C4: the outer loop exits after finitely many adds and removes, for every
\* input, max_strings at the platform maximum included.  A run that ends never
\* comes back to a configuration it has been in; so within one add phase whose
\* limit max_strings is out of reach, a query never starts from an image and a
\* batch size that an earlier query of the same phase started from (from there
\* the phase can make the same choices again, for ever)
C4_Termination ==
    ~ /\ pc = "add"
      /\ keep_adding
      /\ args.max_strings = USIZE_MAX
      /\ <<ref_image, max_at_once>> \in seen

\* C5: when the run has returned with fewer than max_strings strings, no
\* string between two distinct pins in a palette colour would lower the score
\* if added, and no string of the list would lower it if removed
C5_LocalOptimum ==
    (pc = "done" /\ Len(line_segments) < args.max_strings) =>
        /\ \A x \in AllStrings : AddChange(ref_image, x) >= 0
        /\ \A n \in 1 .. Len(line_segments) : RemoveChange(ref_image, line_segments[n]) >= 0

\* C6: the list never holds more than max_strings strings
C6_MaxStringsBound == Len(line_segments) <= args.max_strings

C8_CandidateCoverage ==
    found.kind = "best" =>
        LET n == Len(pin_locations)
            scored == pin_pairs(pin_locations)
        IN /\ \A i \in 1 .. n : <<i, i>> \notin scored
           /\ \A i \in 1 .. n : \A j \in (i + 1) .. n :
                 pin_locations[i] # pin_locations[j] =>
                     /\ <<i, j>> \in scored \/ <<j, i>> \in scored
                     /\ ~(<<i, j>> \in scored /\ <<j, i>> \in scored)

SearchCandidates ==
    IF found.kind = "worst" THEN 1 .. Len(found.segs)
    ELSE IF variant = "mono" THEN pin_pairs(pin_locations)
    ELSE {<<ij[1], ij[2], c>> : ij \in pin_pairs(pin_locations), c \in 1 .. Len(rgbs)}

\* the key the search `found` records sorts candidate x by
SearchKey(x) ==
    IF found.kind = "worst"
    THEN IF variant = "mono"
         THEN line_removal_score_mon(
                  PixLineMon(found.segs[x][1], found.segs[x][2],
                             args.step_size, args.string_alpha), found.image)
         ELSE line_removal_score(found.segs[x][1], found.segs[x][2], found.segs[x][3],
                                 args.step_size, args.string_alpha, found.image)
    ELSE IF variant = "mono"
         THEN line_score_mon(
                  PixLineMon(pin_locations[x[1]], pin_locations[x[2]],
                             args.step_size, args.string_alpha), found.image)
         ELSE line_score(pin_locations[x[1]], pin_locations[x[2]], rgbs[x[3]],
                         args.step_size, args.string_alpha, found.image)

\* the candidates that pass the filter and are compared by the sort
Compared == {x \in SearchCandidates : improving(SearchKey(x))}

\* no two candidates the sort compares have equal keys
NoTies == \A x \in Compared : \A y \in Compared : x # y => SearchKey(x) # SearchKey(y)

\* every result the search `found` records can return on its inputs
SearchOutcomes ==
    IF found.kind = "worst"
    THEN IF variant = "mono"
         THEN find_worst_points_mon(found.segs, found.image, args.step_size,
                                    args.string_alpha, found.k)
         ELSE find_worst_points(found.segs, found.image, args.step_size,
                                args.string_alpha, found.k)
    ELSE IF variant = "mono"
         THEN find_best_points_mon(pin_locations, found.image, args.step_size,
                                   args.string_alpha, found.k)
         ELSE find_best_points(pin_locations, found.image, args.step_size,
                               args.string_alpha, rgbs, found.k)

\* the list of strings and the image a loop body leaves, given the result r of its search
BodyOutcome(r) ==
    IF found.kind = "worst"
    THEN IF variant = "mono"
         THEN remove_lines_mon(found.image, found.segs, by_index_descending(r),
                               args.step_size, args.string_alpha)
         ELSE remove_lines(found.image, found.segs, by_index_descending(r),
                           args.step_size, args.string_alpha)
    ELSE [image |-> IF variant = "mono"
                    THEN subtract_lines_mon(found.image, r, args.step_size, args.string_alpha)
                    ELSE add_lines(found.image, r, args.step_size, args.string_alpha),
          segs |-> found.segs \o segs_of(r)]

BatchImage(n) ==
    IF found.kind = "worst"
    THEN LET order == SubSeq(by_index_descending(found.result), 1, n)
         IN IF variant = "mono"
            THEN remove_lines_mon(found.image, found.segs, order,
                                  args.step_size, args.string_alpha).image
            ELSE remove_lines(found.image, found.segs, order,
                              args.step_size, args.string_alpha).image
    ELSE LET points == SubSeq(found.result, 1, n)
         IN IF variant = "mono"
            THEN subtract_lines_mon(found.image, points, args.step_size, args.string_alpha)
            ELSE add_lines(found.image, points, args.step_size, args.string_alpha)

\* the string the n-th entry of the result `found` records stands for
BatchString(n) ==
    IF found.kind = "worst" THEN found.segs[found.result[n].i] ELSE found.result[n].seg

\* what applying the n-th entry alone does to the score of the image the search was given
EntryChange(n) ==
    IF found.kind = "worst" THEN RemoveChange(found.image, BatchString(n))
    ELSE AddChange(found.image, BatchString(n))

\* C21: every single update of an add batch or a remove batch, the second and
\* later ones of the batch included, leaves the score strictly lower than it
\* was just before that update
C21_EveryUpdateDecreases ==
    found.kind # "none" =>
        \A n \in 1 .. Len(found.result) :
            Score(variant, BatchImage(n)) < Score(variant, BatchImage(n - 1))

\* C21, amended: the first update of a batch leaves the score strictly lower
\* than it was before the batch, and every entry of the batch, applied alone to
\* the image the search was given, would lower the score strictly
C21_FirstUpdateDecreases ==
    (found.kind # "none" /\ found.result # <<>>) =>
        /\ Score(variant, BatchImage(1)) < Score(variant, found.image)
        /\ \A n \in 1 .. Len(found.result) : EntryChange(n) < 0

\* a batch of two or more updates was applied, and its first update lowered the score
C21_Witness ==
    /\ found.kind # "none"
    /\ Len(found.result) >= 2
    /\ Score(variant, BatchImage(1)) < Score(variant, found.image)

\* the indices the remove batch `found` records was given by its search
BatchIndices == {found.result[n].i : n \in 1 .. Len(found.result)}

\* the strings of the list the batch started from whose indices are not in I,
\* in the order of that list
StringsOutside(I) ==
    LET K == (1 .. Len(found.segs)) \ I
    IN [n \in 1 .. Cardinality(K) |->
           found.segs[CHOOSE i \in K : Cardinality({j \in K : j < i}) = n - 1]]

\* the image img with the strings of the list at the indices I taken out of the work
RECURSIVE WithoutStrings(_, _)
WithoutStrings(img, I) ==
    IF I = {} THEN img
    ELSE LET i == SetMin(I)
         IN WithoutStrings(WithoutString(variant, img, found.segs[i],
                                         args.step_size, args.string_alpha), I \ {i})

\* C22: in a remove batch the indices find_worst returned are applied from the
\* biggest to the smallest; every index is in range of the list at the moment
\* it is applied; the strings removed from the list and taken out of the image
\* are exactly those at the returned indices of the list the batch started
\* from; and the strings that remain keep their order
C22_RemoveBatchIndices ==
    found.kind = "worst" =>
        LET order == by_index_descending(found.result)
        IN /\ Len(order) = Len(found.result)
           /\ \A n \in 1 .. Len(order) - 1 : order[n] > order[n + 1]
           /\ \A n \in 1 .. Len(order) : order[n] \in 1 .. (Len(found.segs) - (n - 1))
           /\ line_segments = StringsOutside(BatchIndices)
           /\ ref_image = WithoutStrings(found.image, BatchIndices)

\* a remove batch of two or more indices left a string behind one it removed
C22_Witness ==
    /\ found.kind = "worst"
    /\ Len(found.result) >= 2
    /\ \E i \in BatchIndices : \E j \in (1 .. Len(found.segs)) \ BatchIndices : j > i

\* C23: at every query of find_best the batch size max_at_once is at least 1,
\* whatever max_strings >= 1 the run was given, values below 10 included
C23_BatchPositive ==
    (pc = "add" /\ keep_adding) => max_at_once >= 1

\* the working image the run began with
InitialImage ==
    IF variant = "mono" THEN From_luma(target) ELSE WorkingImage(target, background)

\* the image with the strings of a list put into the work one after the other
RECURSIVE WithStrings(_, _)
WithStrings(img, segs) ==
    IF segs = <<>> THEN img
    ELSE WithStrings(WithString(variant, img, Head(segs), args.step_size, args.string_alpha),
                     Tail(segs))

\* C27: between searches and at exit, ref_image is the initial working image
\* with the PixLine of every string of the current list put in, at the run's
\* step size and alpha; and the final score reported is the score of that image
C27_AccumulatorConsistency ==
    /\ ref_image = WithStrings(InitialImage, line_segments)
    /\ pc = "done" => final_score = Score(variant, WithStrings(InitialImage, line_segments))

\* a remove batch took strings out of the list and left others in it
C27_Witness ==
    /\ found.kind = "worst"
    /\ found.result # <<>>
    /\ line_segments # <<>>
    /\ ref_image # InitialImage

\* C28: every string of the list runs between two different pins of the pin
\* list, and, when strings have colours, in a colour of the palette the
\* optimiser was given
C28_SegmentsWellFormed ==
    \A n \in 1 .. Len(line_segments) :
        LET x == line_segments[n]
        IN /\ \E i \in 1 .. Len(pin_locations) : pin_locations[i] = x[1]
           /\ \E j \in 1 .. Len(pin_locations) : pin_locations[j] = x[2]
           /\ x[1] # x[2]
           /\ variant # "mono" => \E c \in 1 .. Len(rgbs) : rgbs[c] = x[3]

\* the list holds two strings that differ
C28_Witness ==
    /\ Len(line_segments) >= 2
    /\ \E m \in 1 .. Len(line_segments) : line_segments[m] # line_segments[1]

(***************************************************************************)
(* Properties of the accumulator.                                          *)
(***************************************************************************)
\* C1: the value score_change_on_add returns for a line before R += L is the
\* score of R after the update minus the score of R before it
C1_AddDeltaExact ==
    probe.op = "add" => score(ref_image) - score(probe.image) = probe.predicted

\* a string over at least two pixels was added and changed the score
C1_Witness ==
    /\ probe.op = "add"
    /\ Cardinality(DOMAIN probe.line) >= 2
    /\ probe.predicted # 0
    /\ score(ref_image) # score(probe.image)

\* C2: the value score_change_on_sub returns for a line before R -= L is the
\* score of R after the update minus the score of R before it, and it is the
\* value of score_change_on_add for the line with every pixel negated
C2_SubDeltaExact ==
    probe.op = "sub" =>
        /\ score(ref_image) - score(probe.image) = probe.predicted
        /\ probe.predicted = score_change_on_add(probe.image, PixLine_negated(probe.line))

\* a string over at least two pixels was taken off and changed the score
C2_Witness ==
    /\ probe.op = "sub"
    /\ Cardinality(DOMAIN probe.line) >= 2
    /\ probe.predicted # 0
    /\ score(ref_image) # score(probe.image)

\* the squared error between the image rebuilt from the emitted record and the target
SquaredError(rendered, img) ==
    SumOver(Points, [p \in Points |-> pixel_score(Rgb_sub(rendered[p], img[p]))])

\* C10: with the working image started at (-target) + background and every
\* string drawn in its colour minus the background, the score of the working
\* image is the squared error between the target and the unclamped image that
\* From<&Data> rebuilds from the list of strings
C10_BackgroundNormalization ==
    pc = "image" =>
        score(ref_image) =
            SquaredError(From_Data(line_segments, background, args.step_size, args.string_alpha),
                         target)

\* a string is on an image whose background is not black, and it changed the score
C10_Witness ==
    /\ pc = "image"
    /\ line_segments # <<>>
    /\ background # BLACK
    /\ score(ref_image) # initial_score

(***************************************************************************)
(* f64 with a width.  The line iterator counts its samples by repeated    *)
(* subtraction (geometry.rs:98-101), so the rounding of every f64          *)
(* operation matters for steps that are not dyadic.  A float is an integer *)
(* number of units of 2^-FloatScale, rounded after every operation to      *)
(* F64Mant significant bits, nearest, ties to even; F64_NAN stands for NaN.*)
(***************************************************************************)
\* significant bits of the narrowed f64 (53 in the code)
F64Mant == 10
\* a float is a multiple of 2^-FloatScale
FloatScale == 12
FloatOne == 2 ^ FloatScale
\* a value outside the range of the floats the model computes
F64_NAN == -(2 ^ 30)

\* the number of binary digits of n >= 0
BitLen(n) == CHOOSE e \in 0 .. 30 : n < 2 ^ e /\ (e = 0 \/ n >= 2 ^ (e - 1))

\* the float nearest to num/den units (num >= 0, den > 0)
f64_nearest_abs(num, den) ==
    LET sh == Max2(0, BitLen(num \div den) - F64Mant)
        unit == den * 2 ^ sh
        lo == num \div unit
        rem == num - lo * unit
        up == 2 * rem > unit \/ (2 * rem = unit /\ lo % 2 = 1)
    IN (IF up THEN lo + 1 ELSE lo) * 2 ^ sh

f64_nearest(num, den) ==
    IF num < 0 THEN -f64_nearest_abs(-num, den) ELSE f64_nearest_abs(num, den)

\* the f64 a decimal argument n/d is parsed to
f64_of(n, d) == f64_nearest(n * FloatOne, d)

f64_add(x, y) == IF x = F64_NAN \/ y = F64_NAN THEN F64_NAN ELSE f64_nearest(x + y, 1)
f64_sub(x, y) == IF x = F64_NAN \/ y = F64_NAN THEN F64_NAN ELSE f64_nearest(x - y, 1)
f64_mul(x, y) == IF x = F64_NAN \/ y = F64_NAN THEN F64_NAN ELSE f64_nearest(x * y, FloatOne)
\* x / y for y >= 0; the only division by zero the iterator performs is 0.0 / 0.0
f64_div(x, y) ==
    IF x = F64_NAN \/ y = F64_NAN \/ y = 0 THEN F64_NAN ELSE f64_nearest(x * FloatOne, y)

RECURSIVE isqrt_between(_, _, _)
\* the greatest r in lo .. hi with r * r <= n
isqrt_between(n, lo, hi) ==
    IF lo = hi THEN lo
    ELSE LET mid == (lo + hi + 1) \div 2
         IN IF mid * mid <= n THEN isqrt_between(n, mid, hi)
            ELSE isqrt_between(n, lo, mid - 1)

\* f64::sqrt of the float x >= 0, correctly rounded
f64_sqrt(x) ==
    LET n == x * FloatOne
        r == isqrt_between(n, 0, 8 * FloatOne)
        sh == Max2(0, BitLen(r) - F64Mant)
        lo == (r \div 2 ^ sh) * 2 ^ sh
    IN IF r * r = n THEN r
       ELSE IF sh = 0 THEN (IF (2 * r + 1) * (2 * r + 1) < 4 * n THEN r + 1 ELSE r)
       ELSE LET mid == lo + 2 ^ (sh - 1)
            IN IF mid * mid < n THEN lo + 2 ^ sh ELSE lo

(***************************************************************************)
(* Vector, Line and LineIter (geometry.rs): a Vector is <<x, y>> of floats.*)
(***************************************************************************)
\* From<Point> for Vector
Vector_from(p) == <<p[1] * FloatOne, p[2] * FloatOne>>
Vector_add(v, w) == <<f64_add(v[1], w[1]), f64_add(v[2], w[2])>>
Vector_sub(v, w) == <<f64_sub(v[1], w[1]), f64_sub(v[2], w[2])>>
Vector_mul(v, num) == <<f64_mul(v[1], num), f64_mul(v[2], num)>>
Vector_div(v, num) == <<f64_div(v[1], num), f64_div(v[2], num)>>
Vector_len(v) == f64_sqrt(f64_add(f64_mul(v[1], v[1]), f64_mul(v[2], v[2])))
Vector_basis(v) == Vector_div(v, Vector_len(v))

\* Line::iter on the line from point a to point b
Line_iter(a, b, step_size) ==
    LET A == Vector_from(a)
        B == Vector_from(b)
    IN [step |-> Vector_mul(Vector_basis(Vector_sub(B, A)), step_size),
        current |-> A,
        distance |-> Vector_len(Vector_sub(B, A)),
        step_size |-> step_size]

\* an iterator that yields one sample more than the remaining distance allows
LineIter_next_overrun(it) ==
    IF it.distance >= -it.step_size
    THEN [item |-> <<it.current>>,
          iter |-> [it EXCEPT !.current = Vector_add(it.current, it.step),
                              !.distance = f64_sub(it.distance, it.step_size)]]
    ELSE [item |-> <<>>, iter |-> it]

\* LineIter::next: the item (<<v>> for Some(v), <<>> for None) and the iterator afterwards
LineIter_next(it) ==
    IF it.distance >= 0
    THEN [item |-> <<it.current>>,
          iter |-> [it EXCEPT !.current = Vector_add(it.current, it.step),
                              !.distance = f64_sub(it.distance, it.step_size)]]
    ELSE [item |-> <<>>, iter |-> it]

\* f64::round followed by `as u32` on one coordinate: the cast saturates, so a negative
\* value becomes 0 and NaN becomes 0
f64_round_as_u32(x) == IF x = F64_NAN THEN 0 ELSE Max2(0, f64_round(x, FloatOne))

\* From<Vector> for Point
Point_from(v) == <<f64_round_as_u32(v[1]), f64_round_as_u32(v[2])>>

(***************************************************************************)
(* The operations on their own: the rasteriser, the line iterator, the     *)
(* colour type and the palette chooser, each called on inputs drawn from   *)
(* small sets.  call holds one call: its name, its arguments, whether it   *)
(* has run and what it produced.                                           *)
(***************************************************************************)
OpsColours == {WHITE, RED, <<-120, -120, -120>>}
\* the step sizes given to the iterator: 1, 0.5, 0.2 and 0.6 as the floats they parse to
IterSteps == {f64_of(1, 1), f64_of(1, 2), f64_of(1, 5), f64_of(3, 5)}

OpsUnchanged ==
    UNCHANGED <<variant, target, background, pin_locations, rgbs, args, ref_image,
                line_segments, keep_adding, keep_removing, max_at_once, pc, initial_score,
                final_score, found, iter_score, max_batch, seen, probe, iteration>>

\* the call is made: its outcome is recorded
Ran(out) == call' = [call EXCEPT !.out = out, !.ran = TRUE]

\* PixLine::from(((a, b), c, step_size, string_alpha))
Op_PixLine ==
    /\ call.fn = "PixLine" /\ ~call.ran
    /\ Ran(PixLine(call.in[1], call.in[2], call.in[3], call.in[4], call.in[5]))
    /\ OpsUnchanged

\* Line::from((a, b)).iter(step_size)
Op_Line_iter ==
    /\ call.fn = "LineIter" /\ ~call.ran
    /\ Ran([iter |-> Line_iter(call.in[1], call.in[2], call.in[3]), yielded |-> <<>>,
            done |-> FALSE])
    /\ OpsUnchanged

\* one call of next on the iterator in hand, until it has returned None
Op_LineIter_next ==
    /\ call.fn = "LineIter" /\ call.ran
    /\ ~call.out.done
    /\ LET r == LineIter_next(call.out.iter)
       IN call' = [call EXCEPT !.out = [iter |-> r.iter,
                                        yielded |-> call.out.yielded \o r.item,
                                        done |-> r.item = <<>>]]
    /\ OpsUnchanged

(***************************************************************************)
(* Colour strings (imagery.rs:38-74).  A string is a sequence of           *)
(* characters, a character a one-character string; "e'" is a character     *)
(* outside ASCII, two bytes long in UTF-8.  Lengths and slices of a Rust   *)
(* str count bytes, and a slice that does not begin and end on a character *)
(* boundary panics.                                                        *)
(***************************************************************************)
HexDigits == <<"0", "1", "2", "3", "4", "5", "6", "7", "8", "9", "A", "B", "C", "D", "E", "F">>
LowerHexDigits == <<"a", "b", "c", "d", "e", "f">>
NonAscii == "e'"

\* the number of bytes of a character in UTF-8
utf8_len(ch) == IF ch = NonAscii THEN 2 ELSE 1

RECURSIVE str_len(_)
\* str::len: the length in bytes
str_len(s) == IF s = <<>> THEN 0 ELSE utf8_len(Head(s)) + str_len(Tail(s))

\* the byte offsets at which a character of s begins, and the offset of its end
char_boundaries(s) == {str_len(SubSeq(s, 1, n)) : n \in 0 .. Len(s)}

\* &s[i..j] with 0 <= i <= j <= s.len(): <<the slice>>, or <<>> when the slice panics
str_slice(s, i, j) ==
    IF i \in char_boundaries(s) /\ j \in char_boundaries(s)
    THEN LET first == CHOOSE n \in 0 .. Len(s) : str_len(SubSeq(s, 1, n)) = i
             last == CHOOSE n \in 0 .. Len(s) : str_len(SubSeq(s, 1, n)) = j
         IN <<SubSeq(s, first + 1, last)>>
    ELSE <<>>

\* char::to_digit(16): <<value>>, or <<>> for a character that is no hexadecimal digit
to_digit(ch) ==
    IF \E v \in 1 .. 16 : HexDigits[v] = ch
    THEN <<(CHOOSE v \in 1 .. 16 : HexDigits[v] = ch) - 1>>
    ELSE IF \E v \in 1 .. 6 : LowerHexDigits[v] = ch
    THEN <<(CHOOSE v \in 1 .. 6 : LowerHexDigits[v] = ch) + 9>>
    ELSE <<>>

RECURSIVE digits_value(_, _)
\* the digits of s accumulated onto acc in radix 16: <<value>>, or <<>> on a bad
\* digit or a value beyond u8
digits_value(s, acc) ==
    IF s = <<>> THEN <<acc>>
    ELSE LET d == to_digit(Head(s))
         IN IF d = <<>> \/ acc * 16 + d[1] > U8_MAX THEN <<>>
            ELSE digits_value(Tail(s), acc * 16 + d[1])

\* valid_hex: u8::from_str_radix(s, 16).ok().  An unsigned from_str_radix rejects the
\* empty string and a lone sign, skips one leading '+', and reads '-' as a bad digit.
valid_hex(s) ==
    IF s = <<>> THEN <<>>
    ELSE IF Len(s) = 1 /\ Head(s) \in {"+", "-"} THEN <<>>
    ELSE IF Head(s) = "+" THEN digits_value(Tail(s), 0)
    ELSE digits_value(s, 0)

\* the outcomes of a call: a value returned, the error value, a panic
Ok(v) == [tag |-> "Ok", val |-> v]
Err == [tag |-> "Err", val |-> <<>>]
Panic == [tag |-> "panic", val |-> <<>>]

\* FromStr for Rgb; the closures run in order and only while the chain is Some
Rgb_from_str(string) ==
    IF str_len(string) /= 7 THEN Err
    ELSE LET head == str_slice(string, 0, 1)
         IN IF head = <<>> THEN Panic
            ELSE IF head[1] /= <<"#">> THEN Err
            ELSE LET rs == str_slice(string, 1, 3)
                 IN IF rs = <<>> THEN Panic
                    ELSE IF valid_hex(rs[1]) = <<>> THEN Err
                    ELSE LET gs == str_slice(string, 3, 5)
                         IN IF gs = <<>> THEN Panic
                            ELSE IF valid_hex(gs[1]) = <<>> THEN Err
                            ELSE LET bs == str_slice(string, 5, 7)
                                 IN IF bs = <<>> THEN Panic
                                    ELSE IF valid_hex(bs[1]) = <<>> THEN Err
                                    ELSE Ok(<<valid_hex(rs[1])[1], valid_hex(gs[1])[1],
                                              valid_hex(bs[1])[1]>>)

\* u8_clamp
u8_clamp(n) == Max2(0, Min2(U8_MAX, n))

\* Rgb::clamped left out: the channels as they are
Rgb_unclamped(c) == c

\* Rgb::clamped
Rgb_clamped(c) == <<u8_clamp(c[1]), u8_clamp(c[2]), u8_clamp(c[3])>>

RECURSIVE UpperHex(_)
\* {:X} of an i64: the digits of the value, of its two's complement when negative
UpperHex(n) ==
    IF n < 0 THEN UpperHex(2 ^ (I64Bits - 1) + (n - I64_MIN))
    ELSE IF n < 16 THEN <<HexDigits[n + 1]>>
    ELSE UpperHex(n \div 16) \o <<HexDigits[(n % 16) + 1]>>

\* {:X} with no fill and no width
fmt_bare(n) == UpperHex(n)

\* {:0>2X}: the digits, filled with '0' on the left up to two characters
fmt_0_2X(n) ==
    LET digits == UpperHex(n)
    IN IF Len(digits) >= 2 THEN digits ELSE [i \in 1 .. 2 - Len(digits) |-> "0"] \o digits

\* Display for Rgb
Rgb_fmt(c) ==
    LET rgb == Rgb_clamped(c)
    IN <<"#">> \o fmt_0_2X(rgb[1]) \o fmt_0_2X(rgb[2]) \o fmt_0_2X(rgb[3])

\* the channel values the model formats
ChannelValues == {I64_MIN, -18, 0, 9, 18, 86, 171, 255, 520, I64_MAX}

\* the strings the model parses: a head, three channel fields and a tail
StrHeads == {<<"#">>, <<>>, <<"0">>, <<NonAscii>>}
StrFields ==
    { <<"0", "0">>, <<"F", "F">>, <<"a", "b">>, <<"5", "6">>, <<"+", "5">>, <<"-", "5">>,
      <<"G", "0">>, <<NonAscii>>, <<"0", NonAscii>>, <<"0">> }
StrTails == {<<>>, <<"0">>}

\* c.to_string()
Op_Rgb_fmt ==
    /\ call.fn = "Display" /\ ~call.ran
    /\ Ran(Rgb_fmt(call.in))
    /\ OpsUnchanged

\* string.parse::<Rgb>()
Op_Rgb_from_str ==
    /\ call.fn = "FromStr" /\ ~call.ran
    /\ Ran(Rgb_from_str(call.in))
    /\ OpsUnchanged

(***************************************************************************)
(* Colour arithmetic on its own (imagery.rs:76-105).  Add and Sub use the  *)
(* saturating operations of i64; Neg uses the plain unary minus, which     *)
(* overflows on i64::MIN: a build with overflow checks panics there, a     *)
(* build without them wraps to i64::MIN.                                   *)
(***************************************************************************)
\* what -c can do: return, and panic when a channel overflows
Rgb_neg_outcomes(c) ==
    {Ok(Rgb_neg(c))} \cup (IF \E i \in 1 .. 3 : c[i] = I64_MIN THEN {Panic} ELSE {})

\* the colours the model computes with
ArithColours ==
    { <<5, 15, 27>>, <<5, 5, 3>>, <<-18, 520, 86>>, <<I64_MAX, I64_MIN, 0>>,
      <<I64_MIN, I64_MAX, -1>>, <<I64_MIN + 1, I64_MAX - 1, 1>> }

\* x + y
Op_Rgb_add ==
    /\ call.fn = "Add" /\ ~call.ran
    /\ Ran(Ok(Rgb_add(call.in[1], call.in[2])))
    /\ OpsUnchanged

\* x - y
Op_Rgb_sub ==
    /\ call.fn = "Sub" /\ ~call.ran
    /\ Ran(Ok(Rgb_sub(call.in[1], call.in[2])))
    /\ OpsUnchanged

\* -x
Op_Rgb_neg ==
    /\ call.fn = "Neg" /\ ~call.ran
    /\ \E out \in Rgb_neg_outcomes(call.in[1]) : Ran(out)
    /\ OpsUnchanged

(***************************************************************************)
(* The palette chooser (auto_color.rs).  An image is a sequence of pixels; *)
(* a HashMap or a HashSet is iterated in an order the program does not     *)
(* control, so a choice among equal counts and the order of the manual     *)
(* foregrounds are any of the possible ones.                               *)
(***************************************************************************)
\* the longest image the palette chooser is given
MaxPix == 3

BLUE == <<0, 0, 255>>
GREEN == <<0, U8_MAX, 0>>

\* DynamicImage::adjust_contrast(1500.0) on a channel: ((c / 255 - 0.5) * 256 + 0.5) * 255
\* clamped to a byte, which is 0 up to 127 and 255 from 128
contrast_channel(c) == IF 2 * c >= U8_MAX + 1 THEN U8_MAX ELSE 0

\* image_rgbs: the pixels of the contrast-adjusted image
image_rgbs(image) ==
    [i \in 1 .. Len(image) |->
        <<contrast_channel(image[i][1]), contrast_channel(image[i][2]),
          contrast_channel(image[i][3])>>]

\* rank_colors: how many pixels hold each colour (the adjustment applied twice changes
\* nothing the first did not)
rank_colors(image) ==
    LET px == image_rgbs(image_rgbs(image))
    IN [c \in {px[i] : i \in 1 .. Len(px)} |-> Cardinality({i \in 1 .. Len(px) : px[i] = c})]

\* the sequences that list every element of S once
Orderings(S) ==
    {s \in [1 .. Cardinality(S) -> S] : \A i, j \in 1 .. Cardinality(S) : s[i] = s[j] => i = j}

\* counts along the sequence never decrease
by_count_ascending(H, s) == \A i, j \in 1 .. Len(s) : i < j => H[s[i]] <= H[s[j]]

\* sort_unstable_by_key(count) then reverse: counts along the sequence never increase
by_count_descending(H, s) == \A i, j \in 1 .. Len(s) : i < j => H[s[i]] >= H[s[j]]

\* calc_bg with no colour left out
calc_bg_unfiltered(image, foreground_colors) ==
    LET H == rank_colors(image)
        cand == DOMAIN H
    IN IF cand = {} THEN {Panic}
       ELSE {Ok(c) : c \in {d \in cand : \A e \in cand : H[e] <= H[d]}}

\* calc_bg: the outcomes of max_by_key over the colours that are no manual foreground;
\* unwrap panics when there is none
calc_bg(image, foreground_colors) ==
    LET H == rank_colors(image)
        cand == DOMAIN H \ foreground_colors
    IN IF cand = {} THEN {Panic}
       ELSE {Ok(c) : c \in {d \in cand : \A e \in cand : H[e] <= H[d]}}

\* calc_fgs: the lists it can return
calc_fgs(image, foreground_colors, background_color, limit) ==
    LET H == rank_colors(image)
        ranked == {s \in Orderings(DOMAIN H) : by_count_descending(H, s)}
        kept(s) == SelectSeq(s, LAMBDA c : c \notin foreground_colors /\ c /= background_color)
        take(s) == SubSeq(s, 1, Min2(limit, Len(s)))
    IN {take(kept(s)) \o man : s \in ranked, man \in Orderings(foreground_colors)}

\* fg_and_bg: its outcomes; an AutoColor is [auto_fg_count, manual_foregrounds,
\* manual_background], the last <<>> for None and <<c>> for Some(c)
fg_and_bg(auto_color, image) ==
    LET bgs == IF auto_color.manual_background /= <<>>
               THEN {Ok(auto_color.manual_background[1])}
               ELSE calc_bg(image, auto_color.manual_foregrounds)
    IN UNION { IF bg.tag = "panic" THEN {Panic}
               ELSE {Ok([foregrounds |-> fgs, background |-> bg.val]) :
                        fgs \in calc_fgs(image, auto_color.manual_foregrounds, bg.val,
                                         auto_color.auto_fg_count)}
             : bg \in bgs }

\* the pixels, before the contrast adjustment, of the images the model draws
RawColours == {WHITE, BLUE, BLACK, <<127, 128, 127>>}
PaletteImages == [1 .. MaxPix -> RawColours]
AutoColors ==
    [auto_fg_count : {0, 1, 2, 20},
     manual_foregrounds : {{}, {WHITE}, {WHITE, BLUE}},
     manual_background : {<<>>, <<WHITE>>, <<BLUE>>, <<BLACK>>}]

\* fg_and_bg(&auto_color, &image)
Op_fg_and_bg ==
    /\ call.fn = "fg_and_bg" /\ ~call.ran
    /\ \E out \in fg_and_bg(call.in[1], call.in[2]) : Ran(out)
    /\ OpsUnchanged

(***************************************************************************)
(* The numeric arguments step_size and string_alpha: cli_app/app.rs gives  *)
(* them a value_parser over a range of integers, string_art/cli_app.rs a   *)
(* validator closure.                                                      *)
(***************************************************************************)
\* char::to_digit(10)
dec_digit(ch) ==
    IF \E v \in 1 .. 10 : HexDigits[v] = ch
    THEN <<(CHOOSE v \in 1 .. 10 : HexDigits[v] = ch) - 1>>
    ELSE <<>>

RECURSIVE dec_value(_, _)
\* the decimal digits of s accumulated onto acc: <<value>>, or <<>> on a bad digit
dec_value(s, acc) ==
    IF s = <<>> THEN <<acc>>
    ELSE LET d == dec_digit(Head(s))
         IN IF d = <<>> THEN <<>> ELSE dec_value(Tail(s), acc * 10 + d[1])

\* 10 to the power n
RECURSIVE pow10(_)
pow10(n) == IF n = 0 THEN 1 ELSE 10 * pow10(n - 1)

\* str::parse::<i64>: an optional sign and one or more decimal digits
i64_from_str(s) ==
    LET signed == s # <<>> /\ Head(s) \in {"+", "-"}
        digits == IF signed THEN Tail(s) ELSE s
        v == dec_value(digits, 0)
    IN IF digits = <<>> \/ v = <<>> THEN Err
       ELSE IF signed /\ Head(s) = "-" THEN Ok(-v[1]) ELSE Ok(v[1])

\* str::parse::<f64> on the decimal notation without exponent, and "NaN": an
\* optional sign, digits around at most one point, one digit at least
f64_from_str(s) ==
    IF s = <<"N", "a", "N">> THEN Ok(F64_NAN)
    ELSE LET signed == s # <<>> /\ Head(s) \in {"+", "-"}
             body == IF signed THEN Tail(s) ELSE s
             points == {n \in 1 .. Len(body) : body[n] = "."}
             whole == IF points = {} THEN body ELSE SubSeq(body, 1, SetMin(points) - 1)
             frac == IF points = {} THEN <<>> ELSE SubSeq(body, SetMin(points) + 1, Len(body))
             w == dec_value(whole, 0)
             f == dec_value(frac, 0)
         IN IF Len(whole) + Len(frac) = 0 \/ w = <<>> \/ f = <<>> THEN Err
            ELSE LET x == f64_of(w[1] * pow10(Len(frac)) + f[1], pow10(Len(frac)))
                 IN IF signed /\ Head(s) = "-" THEN Ok(-x) ELSE Ok(x)

\* a < b on f64: false when either is NaN
f64_lt(a, b) == a # F64_NAN /\ b # F64_NAN /\ a < b
\* a <= b on f64: false when either is NaN
f64_le(a, b) == a # F64_NAN /\ b # F64_NAN /\ a <= b

\* .value_parser(lo..=hi) of app.rs: the text is parsed as an i64 and held to the range
ranged_i64_value_parser(lo, hi, s) ==
    LET r == i64_from_str(s)
    IN IF r.tag = "Ok" /\ lo <= r.val /\ r.val <= hi THEN Ok(r.val * FloatOne) ELSE Err

\* app.rs: Arg::new("step_size") ... .value_parser(0..=50)
create_step_size(s) == ranged_i64_value_parser(0, 50, s)

\* app.rs: Arg::new("string_alpha") ... .value_parser(0..=1)
create_string_alpha(s) == ranged_i64_value_parser(0, 1, s)

\* string_art/cli_app.rs: the validator of step_size, then number_arg
get_matches_step_size(s) == f64_from_str(s)

\* string_art/cli_app.rs: the validator of string_alpha, then number_arg
get_matches_string_alpha(s) ==
    LET r == f64_from_str(s)
    IN IF r.tag = "Ok" /\ f64_lt(0, r.val) /\ f64_le(r.val, FloatOne) THEN r ELSE Err

\* the texts given for a numeric argument, each with the number it denotes as
\* <<numerator, denominator>>, or <<>> when it denotes none
ArgTexts ==
    { [text |-> <<"1", ".", "0">>, value |-> <<1, 1>>],
      [text |-> <<"0", ".", "2">>, value |-> <<1, 5>>],
      [text |-> <<"1">>, value |-> <<1, 1>>],
      [text |-> <<"0">>, value |-> <<0, 1>>],
      [text |-> <<"0", ".", "0">>, value |-> <<0, 1>>],
      [text |-> <<"-", "1">>, value |-> <<-1, 1>>],
      [text |-> <<"-", "0", ".", "5">>, value |-> <<-1, 2>>],
      [text |-> <<"0", ".", "5">>, value |-> <<1, 2>>],
      [text |-> <<".", "5">>, value |-> <<1, 2>>],
      [text |-> <<"0", ".", "8", "3">>, value |-> <<83, 100>>],
      [text |-> <<"1", ".", "5">>, value |-> <<3, 2>>],
      [text |-> <<"2">>, value |-> <<2, 1>>],
      [text |-> <<"5", "0">>, value |-> <<50, 1>>],
      [text |-> <<"5", "1">>, value |-> <<51, 1>>],
      [text |-> <<"N", "a", "N">>, value |-> <<>>],
      [text |-> <<"x">>, value |-> <<>>],
      [text |-> <<".">>, value |-> <<>>],
      [text |-> <<>>, value |-> <<>>] }

\* --step-size TEXT, --string-alpha TEXT
Op_create_step_size ==
    /\ call.fn = "create.step_size" /\ ~call.ran
    /\ Ran(create_step_size(call.in.text))
    /\ OpsUnchanged

Op_create_string_alpha ==
    /\ call.fn = "create.string_alpha" /\ ~call.ran
    /\ Ran(create_string_alpha(call.in.text))
    /\ OpsUnchanged

Op_get_matches_step_size ==
    /\ call.fn = "get_matches.step_size" /\ ~call.ran
    /\ Ran(get_matches_step_size(call.in.text))
    /\ OpsUnchanged

Op_get_matches_string_alpha ==
    /\ call.fn = "get_matches.string_alpha" /\ ~call.ran
    /\ Ran(get_matches_string_alpha(call.in.text))
    /\ OpsUnchanged

\* a call about to be made
Pending(fn, in) == [fn |-> fn, in |-> in, out |-> <<>>, ran |-> FALSE]

\* the calls the model makes
OpsCalls ==
    {Pending("PixLine", <<a, b, c, sa[1], sa[2]>>) :
        a \in Points, b \in Points, c \in OpsColours, sa \in ImgStepAlphas}
    \cup {Pending("LineIter", <<a, b, s>>) : a \in Points, b \in Points, s \in IterSteps}
    \cup {Pending("Display", <<r, g, b>>) :
            r \in ChannelValues, g \in ChannelValues, b \in ChannelValues}
    \cup {Pending("FromStr", h \o f1 \o f2 \o f3 \o tl) :
            h \in StrHeads, f1 \in StrFields, f2 \in StrFields, f3 \in StrFields,
            tl \in StrTails}
    \cup {Pending("Add", <<x, y>>) : x \in ArithColours, y \in ArithColours}
    \cup {Pending("Sub", <<x, y>>) : x \in ArithColours, y \in ArithColours}
    \cup {Pending("Neg", <<x>>) : x \in ArithColours}
    \cup {Pending("fg_and_bg", <<ac, image>>) : ac \in AutoColors, image \in PaletteImages}
    \cup {Pending(fn, t) :
            fn \in {"create.step_size", "create.string_alpha",
                    "get_matches.step_size", "get_matches.string_alpha"},
            t \in ArgTexts}

InitOps ==
    /\ variant = "ops"
    /\ target = RefImage_new
    /\ background = BLACK
    /\ pin_locations = <<>>
    /\ rgbs = <<>>
    /\ args = [max_strings |-> 0, step_size |-> Rat(1, 1), string_alpha |-> Rat(1, 1)]
    /\ ref_image = RefImage_new
    /\ line_segments = <<>>
    /\ keep_adding = FALSE /\ keep_removing = FALSE /\ max_at_once = 0
    /\ pc = "ops"
    /\ initial_score = 0 /\ final_score = 0
    /\ found = NoFound /\ iter_score = 0 /\ max_batch = 0 /\ seen = {}
    /\ probe = NoProbe
    /\ call \in OpsCalls
    /\ iteration = 0

NextOps ==
    \/ Op_PixLine
    \/ Op_Line_iter
    \/ Op_LineIter_next
    \/ Op_Rgb_fmt
    \/ Op_Rgb_from_str
    \/ Op_Rgb_add
    \/ Op_Rgb_sub
    \/ Op_Rgb_neg
    \/ Op_fg_and_bg
    \/ Op_create_step_size
    \/ Op_create_string_alpha
    \/ Op_get_matches_step_size
    \/ Op_get_matches_string_alpha

SpecOps == InitOps /\ [][NextOps]_vars

(***************************************************************************)
(* Properties of the operations specification.                             *)
(***************************************************************************)
\* C11: the PixLine of the line (A, B) is, as a map from pixels to colours, the PixLine
\* of the line (B, A), for every pair of endpoints, colour, step and alpha.
C11_PairSymmetry ==
    (call.fn = "PixLine" /\ call.ran) =>
        call.out = PixLine(call.in[2], call.in[1], call.in[3], call.in[4], call.in[5])

\* C12: an exhausted line iterator has yielded exactly floor(|B - A| / s) + 1 samples.
C12_SampleCount ==
    (call.fn = "LineIter" /\ call.ran /\ call.out.done) =>
        Len(call.out.yielded)
            = LastSample(call.in[1], call.in[2], Rat(call.in[3], FloatOne)) + 1

\* C13: formatting a colour whose channels lie in 0 .. 255 and parsing the string
\* gives the colour back.
C13_ColourRoundTrip ==
    (call.fn = "Display" /\ call.ran /\ \A i \in 1 .. 3 : call.in[i] \in 0 .. U8_MAX) =>
        Rgb_from_str(call.out) = Ok(call.in)

C13_Witness ==
    /\ call.fn = "Display" /\ call.ran
    /\ call.in = <<171, 86, 9>>
    /\ call.out = <<"#", "A", "B", "5", "6", "0", "9">>
    /\ Rgb_from_str(call.out) = Ok(call.in)

\* '#' followed by six hexadecimal digits of either case
WellFormedHex(s) ==
    /\ Len(s) = 7
    /\ s[1] = "#"
    /\ \A i \in 2 .. 7 :
           \/ \E v \in 1 .. 16 : s[i] = HexDigits[v]
           \/ \E v \in 1 .. 6 : s[i] = LowerHexDigits[v]

\* C14: parsing accepts exactly the strings '#' + six hexadecimal digits; every other
\* string yields the error value, never a colour and never a panic.
C14_HexGrammar ==
    (call.fn = "FromStr" /\ call.ran) =>
        IF WellFormedHex(call.in) THEN call.out.tag = "Ok" ELSE call.out.tag = "Err"

\* C15: formatting gives '#' and, for each channel clamped into 0 .. 255, its two
\* uppercase hexadecimal digits: seven characters whatever the channels hold.
C15_FormatClamps ==
    (call.fn = "Display" /\ call.ran) =>
        /\ Len(call.out) = 7
        /\ call.out[1] = "#"
        /\ \A i \in 1 .. 3 :
               LET v == IF call.in[i] < 0 THEN 0
                        ELSE IF call.in[i] > U8_MAX THEN U8_MAX ELSE call.in[i]
               IN /\ call.out[2 * i] = HexDigits[(v \div 16) + 1]
                  /\ call.out[2 * i + 1] = HexDigits[(v % 16) + 1]

C15_Witness ==
    /\ call.fn = "Display" /\ call.ran
    /\ call.in = <<-18, 520, 86>>
    /\ call.out = <<"#", "0", "0", "F", "F", "5", "6">>

\* the integer n brought into the range of i64
Saturated(n) == IF n > I64_MAX THEN I64_MAX ELSE IF n < I64_MIN THEN I64_MIN ELSE n

\* C16: +, binary - and unary - on colours return, per channel, the exact result
\* saturated at the bounds of i64; negating the least value gives the greatest.
C16_SaturatingArithmetic ==
    (call.fn \in {"Add", "Sub", "Neg"} /\ call.ran) =>
        /\ call.out.tag = "Ok"
        /\ \A i \in 1 .. 3 :
               call.out.val[i] =
                   Saturated(CASE call.fn = "Add" -> call.in[1][i] + call.in[2][i]
                               [] call.fn = "Sub" -> call.in[1][i] - call.in[2][i]
                               [] call.fn = "Neg" -> 0 - call.in[1][i])

\* the arguments of the palette call in hand, and the histogram of its image
PaletteConfig == call.in[1]
PaletteHistogram == rank_colors(call.in[2])
\* the colours of the histogram that are no manual foreground
BackgroundCandidates == DOMAIN PaletteHistogram \ PaletteConfig.manual_foregrounds

\* the background is the manual one when given, else a candidate of greatest count
BackgroundAsSpecified ==
    /\ call.out.tag = "Ok"
    /\ IF PaletteConfig.manual_background /= <<>>
       THEN call.out.val.background = PaletteConfig.manual_background[1]
       ELSE /\ call.out.val.background \in BackgroundCandidates
            /\ \A c \in BackgroundCandidates :
                   PaletteHistogram[c] <= PaletteHistogram[call.out.val.background]

C18_Foregrounds ==
    (call.fn = "fg_and_bg" /\ call.ran /\ call.out.tag = "Ok") =>
        LET fgs == call.out.val.foregrounds
            H == PaletteHistogram
            man == PaletteConfig.manual_foregrounds
            avail == (DOMAIN H \ man) \ {call.out.val.background}
            n == Min2(PaletteConfig.auto_fg_count, Cardinality(avail))
            picked == {fgs[i] : i \in 1 .. n}
        IN /\ Len(fgs) = n + Cardinality(man)
           /\ Len(fgs) <= PaletteConfig.auto_fg_count + Cardinality(man)
           /\ picked \subseteq avail /\ Cardinality(picked) = n
           /\ \A i, j \in 1 .. n : i < j => H[fgs[i]] >= H[fgs[j]]
           /\ \A c \in avail \ picked : \A i \in 1 .. n : H[c] <= H[fgs[i]]
           /\ {fgs[i] : i \in n + 1 .. Len(fgs)} = man

\* a call that asks for more colours than the image has left, with a manual foreground
C18_Witness ==
    /\ call.fn = "fg_and_bg" /\ call.ran /\ call.out.tag = "Ok"
    /\ PaletteConfig.auto_fg_count = 20
    /\ PaletteConfig.manual_foregrounds = {WHITE}
    /\ call.out.val.background = BLUE
    /\ call.out.val.foregrounds = <<GREEN, WHITE>>

\* C19: no colour of the foregrounds returned is the background returned.
C19_ForegroundsExcludeBackground ==
    (call.fn = "fg_and_bg" /\ call.ran /\ call.out.tag = "Ok") =>
        \A i \in 1 .. Len(call.out.val.foregrounds) :
            call.out.val.foregrounds[i] /= call.out.val.background

\* the number the text of the call denotes is greater than 0
ArgPositive == call.in.value # <<>> /\ call.in.value[1] > 0
\* the number the text of the call denotes is at most 1
ArgAtMostOne == call.in.value # <<>> /\ call.in.value[1] <= call.in.value[2]

\* C26: a step_size is accepted when it is greater than 0 and rejected
\* otherwise, a string_alpha is accepted when it is in (0, 1] and rejected
\* otherwise, the defaults 1.0 and 0.2 being accepted
C26_ArgumentRanges ==
    /\ (call.fn \in {"create.step_size", "get_matches.step_size"} /\ call.ran) =>
           (call.out.tag = "Ok" <=> ArgPositive)
    /\ (call.fn \in {"create.string_alpha", "get_matches.string_alpha"} /\ call.ran) =>
           (call.out.tag = "Ok" <=> (ArgPositive /\ ArgAtMostOne))

(***************************************************************************)
(* The batch size of style.rs: implementation with each search replaced by *)
(* the number of entries it returns, which is all the control flow and     *)
(* max_at_once depend on.                                                  *)
(***************************************************************************)
\* the longest list the batch-size specification holds (memory)
MaxHeld == 230
\* the outer-loop iterations the batch-size specification follows
MaxIter == 3

\* args.max_strings in the batch-size specification
BatchMaxStrings == {1, 21, 300, USIZE_MAX}

\* a string of the list, all strings being alike to the batch size
AnyString == <<<<0, 0>>, <<1, 1>>, WHITE>>

\* the lengths a result of a search limited to k entries can have, as far as
\* the loop tells them apart: empty, one entry, the limit
Returned(k) == {0, 1, k} \cap (0 .. k)

BatchUnchanged ==
    UNCHANGED <<variant, target, background, pin_locations, rgbs, args, ref_image,
                initial_score, final_score, found, iter_score, max_batch, seen, probe, call>>

InitBatch ==
    /\ variant = "batch"
    /\ target = RefImage_new
    /\ background = BLACK
    /\ pin_locations = <<>>
    /\ rgbs = <<>>
    /\ \E ms \in BatchMaxStrings :
           args = [max_strings |-> ms, step_size |-> Rat(1, 1), string_alpha |-> Rat(1, 1)]
    /\ ref_image = RefImage_new
    /\ line_segments = <<>>
    /\ keep_adding = TRUE /\ keep_removing = TRUE
    /\ max_at_once = initial_max_at_once(args.max_strings)
    /\ pc = "outer"
    /\ initial_score = 0 /\ final_score = 0
    /\ found = NoFound /\ iter_score = 0 /\ max_batch = 0 /\ seen = {}
    /\ probe = NoProbe
    /\ call = NoCall
    /\ iteration = 0

\* while keep_adding || keep_removing: max_at_once = usize::min(max_at_once, 100)
Batch_Loop ==
    /\ pc = "outer"
    /\ keep_adding \/ keep_removing
    /\ iteration < MaxIter
    /\ max_at_once' = Min2(max_at_once, 100)
    /\ pc' = "add"
    /\ iteration' = iteration + 1
    /\ UNCHANGED <<line_segments, keep_adding, keep_removing>>
    /\ BatchUnchanged

\* one pass through the body of `while keep_adding`, find_best returning n entries
Batch_Add ==
    /\ pc = "add" /\ keep_adding
    /\ LET k == Min2(args.max_strings - Len(line_segments), max_at_once)
       IN \E n \in Returned(k) :
            /\ Len(line_segments) + n <= MaxHeld
            /\ max_at_once' = IF n = max_at_once THEN grown(max_at_once) ELSE max_at_once
            /\ line_segments' = line_segments \o [i \in 1 .. n |-> AnyString]
            /\ keep_adding' = (n # 0 /\ Len(line_segments') < args.max_strings)
            /\ keep_removing' = (keep_removing \/ n # 0)
    /\ UNCHANGED <<pc, iteration>>
    /\ BatchUnchanged

\* max_at_once = usize::max(1, (max_at_once as f64 * 0.9) as usize)
Batch_AddDone ==
    /\ pc = "add" /\ ~keep_adding
    /\ max_at_once' = shrunk(max_at_once)
    /\ pc' = "remove"
    /\ UNCHANGED <<line_segments, keep_adding, keep_removing, iteration>>
    /\ BatchUnchanged

\* one pass through the body of `while keep_removing`, find_worst returning n entries
Batch_Remove ==
    /\ pc = "remove" /\ keep_removing
    /\ LET k == Min2(Len(line_segments), Max2(1, max_at_once \div 10))
       IN \E n \in Returned(k) :
            /\ line_segments' = SubSeq(line_segments, 1, Len(line_segments) - n)
            /\ keep_removing' = (n # 0 /\ line_segments' # <<>>)
            /\ keep_adding' = (keep_adding \/ n # 0)
    /\ UNCHANGED <<pc, max_at_once, iteration>>
    /\ BatchUnchanged

\* the remove loop ends, and with it one iteration of the outer loop
Batch_RemoveDone ==
    /\ pc = "remove" /\ ~keep_removing
    /\ pc' = "outer"
    /\ UNCHANGED <<line_segments, keep_adding, keep_removing, max_at_once, iteration>>
    /\ BatchUnchanged

\* the outer loop's condition fails
Batch_Return ==
    /\ pc = "outer"
    /\ ~keep_adding /\ ~keep_removing
    /\ pc' = "done"
    /\ UNCHANGED <<line_segments, keep_adding, keep_removing, max_at_once, iteration>>
    /\ BatchUnchanged

NextBatch ==
    \/ Batch_Loop \/ Batch_Add \/ Batch_AddDone \/ Batch_Remove \/ Batch_RemoveDone
    \/ Batch_Return

SpecBatch == InitBatch /\ [][NextBatch]_vars

\* C24: the n-th iteration of the outer loop (n = 0, 1, ...) starts with the
\* batch size clamped to a cap that began at 100 and lost one per iteration:
\* the value the loop head leaves in max_at_once is at most 100 - n
C24_DecayingCap ==
    [][(pc = "outer" /\ pc' = "add") => max_at_once' <= 100 - iteration]_vars

(***************************************************************************)
(* The parallel searches of optimum.rs: every candidate is scored by a     *)
(* task of the thread pool, the tasks run in any order, and collect() puts *)
(* what the filter lets through in the order of the candidates.            *)
(***************************************************************************)
\* how the build's sort_unstable_by_key orders equal keys: as they came, or reversed
TieRules == {"first", "last"}

\* the limits the searches are called with
ParLimits == {1, 2, 100}

\* the pin lists of the parallel searches: the first two corners, or all four
ParPinLists == {SubSeq(Corners, 1, 2), Corners}

\* pins.enumerate() x pins.skip(i), filtered, x rgbs: the candidates in iteration order
best_candidates(pins, colours) ==
    LET C == {<<ij[1], ij[2], c>> : ij \in pin_pairs(pins), c \in 1 .. Len(colours)}
        before(y, x) == \/ y[1] < x[1]
                        \/ y[1] = x[1] /\ y[2] < x[2]
                        \/ y[1] = x[1] /\ y[2] = x[2] /\ y[3] < x[3]
    IN [n \in 1 .. Cardinality(C) |->
           CHOOSE x \in C : Cardinality({y \in C : before(y, x)}) = n - 1]

\* the number of candidates of the search in progress
ParCount ==
    IF call.fn = "find_best" THEN Len(best_candidates(pin_locations, rgbs))
    ELSE Len(line_segments)

\* what the closure of the search in progress yields for its n-th candidate,
\* reading the shared image
ParItem(n) ==
    IF call.fn = "find_best"
    THEN LET x == best_candidates(pin_locations, rgbs)[n]
         IN [seg |-> <<pin_locations[x[1]], pin_locations[x[2]], rgbs[x[3]]>>,
             s |-> line_score(pin_locations[x[1]], pin_locations[x[2]], rgbs[x[3]],
                              args.step_size, args.string_alpha, ref_image)]
    ELSE [i |-> n,
          s |-> line_removal_score(line_segments[n][1], line_segments[n][2],
                                   line_segments[n][3], args.step_size,
                                   args.string_alpha, ref_image)]

\* .filter(|(_, s)| *s < 0)
filter_improving(v) ==
    LET keep(it) == improving(it.s)
    IN SelectSeq(v, keep)

\* a collection in the order the tasks finished
par_collect_as_finished(done, items) == filter_improving([n \in 1 .. Len(done) |-> items[done[n]]])

\* .filter(..).collect::<Vec<_>>() of a parallel iterator: the items that pass,
\* in the order of the candidates, whatever order the tasks finished in
par_collect(done, items) == filter_improving([n \in 1 .. Len(done) |-> items[n]])

\* lines.sort_unstable_by_key(|(_, s)| *s): a function of the vector, equal
\* keys ordered by the build's rule
sort_unstable_by_key(rule, v) ==
    LET N == Len(v)
        rank(i) == Cardinality({j \in 1 .. N :
                       \/ v[j].s < v[i].s
                       \/ v[j].s = v[i].s /\ (IF rule = "first" THEN j < i ELSE j > i)})
    IN [n \in 1 .. N |-> v[CHOOSE i \in 1 .. N : rank(i) = n - 1]]

\* lines.into_iter().take(max).collect()
take(v, max) == SubSeq(v, 1, Min2(max, Len(v)))

\* the lists of strings find_worst is called on, built from up to two strings
ParSegLists(pins, colours) ==
    LET c == best_candidates(pins, colours)
        str(n) == <<pins[c[n][1]], pins[c[n][2]], colours[c[n][3]]>>
        S == {str(n) : n \in 1 .. Min2(2, Len(c))}
    IN [1 .. 3 -> S]

\* the image after the strings of a list are added to it
WithList(img, segs, s, al) == add_lines(img, [n \in 1 .. Len(segs) |-> [seg |-> segs[n]]], s, al)

InitPar ==
    /\ variant = "par"
    /\ target \in Targets
    /\ \E pal \in ImgPalettes : background = pal.background /\ rgbs = Shifted(pal)
    /\ \E sa \in ImgStepAlphas :
           args = [max_strings |-> USIZE_MAX, step_size |-> sa[1], string_alpha |-> sa[2]]
    /\ pin_locations \in ParPinLists
    /\ \E fn \in {"find_best", "find_worst"}, max \in ParLimits, rule \in TieRules :
           /\ line_segments \in IF fn = "find_best" THEN {<<>>}
                                ELSE ParSegLists(pin_locations, rgbs)
           /\ ref_image = WithList(WorkingImage(target, background), line_segments,
                                   args.step_size, args.string_alpha)
           /\ call = [fn |-> fn,
                      in |-> [max |-> max, rule |-> rule, image |-> ref_image,
                              pins |-> pin_locations, segs |-> line_segments],
                      out |-> [done |-> <<>>, items |-> <<>>, result |-> <<>>],
                      ran |-> FALSE]
    /\ keep_adding = FALSE /\ keep_removing = FALSE /\ max_at_once = 0
    /\ pc = "search"
    /\ initial_score = 0 /\ final_score = 0
    /\ found = NoFound /\ iter_score = 0 /\ max_batch = 0 /\ seen = {}
    /\ probe = NoProbe
    /\ iteration = 0

\* a task of the pool scores the n-th candidate, any candidate not yet scored
Par_Task ==
    /\ pc = "search"
    /\ \E n \in (1 .. ParCount) \ {call.out.done[m] : m \in 1 .. Len(call.out.done)} :
           call' = [call EXCEPT !.out.done = Append(@, n),
                                !.out.items = @ @@ (n :> ParItem(n))]
    /\ UNCHANGED pc
    /\ OpsUnchanged

\* every task has finished: collect, sort, take
Par_Join ==
    /\ pc = "search"
    /\ Len(call.out.done) = ParCount
    /\ call' = [call EXCEPT
                   !.out.result = take(sort_unstable_by_key(call.in.rule,
                                           par_collect(call.out.done, call.out.items)),
                                       call.in.max),
                   !.ran = TRUE]
    /\ pc' = "returned"
    /\ UNCHANGED <<variant, target, background, pin_locations, rgbs, args, ref_image,
                   line_segments, keep_adding, keep_removing, max_at_once, initial_score,
                   final_score, found, iter_score, max_batch, seen, probe, iteration>>

NextPar == Par_Task \/ Par_Join

SpecPar == InitPar /\ [][NextPar]_vars

\* the list a sequential evaluation of the same candidates returns
SequentialResult ==
    take(sort_unstable_by_key(call.in.rule,
             filter_improving([n \in 1 .. ParCount |-> ParItem(n)])),
         call.in.max)

YieldedPoints == {Point_from(call.out.yielded[i]) : i \in 1 .. Len(call.out.yielded)}

\* C29: with both endpoints inside the image (x < width, y < height), every pixel of
\* the PixLine of the segment, and every sample the line iterator yields once rounded
\* to a Point, is inside the image, so indexing the image by it is in range.
C29_PixelsInBounds ==
    /\ (call.fn = "PixLine" /\ call.ran) => DOMAIN call.out \subseteq Points
    /\ (call.fn = "LineIter" /\ call.ran) => YieldedPoints \subseteq Points

\* an exhausted iterator over a line between two distinct pins that ends on the far
\* corner of the image and has rounded a sample onto that corner
C29_Witness ==
    /\ call.fn = "LineIter" /\ call.ran /\ call.out.done
    /\ call.in[1] # call.in[2]
    /\ call.in[2] = <<Width - 1, Height - 1>>
    /\ Len(call.out.yielded) >= 3
    /\ call.in[2] \in YieldedPoints

(***************************************************************************)
(* The palette chooser on calls that give no background.                   *)
(***************************************************************************)
\* C30: on a non-empty image and a configuration without a manual background,
\* fg_and_bg returns a (foregrounds, background) pair, also when every colour of the
\* histogram is a manual foreground.
C30_PaletteTotal ==
    (/\ call.fn = "fg_and_bg" /\ call.ran
     /\ PaletteConfig.manual_background = <<>>
     /\ Len(call.in[2]) >= 1)
        => call.out.tag = "Ok"

====
